---- MODULE Spec2Model ----
(***************************************************************************)
(* A model of the shrink compression library (howerj/shrink): the byte    *)
(* stream callbacks, the bit buffer, and the five CODECs (RLE, LZSS,      *)
(* Elias-Gamma, Move-To-Front, LZP) as they are written in the library    *)
(* source, driven by shrink_buffer() the way shrink_test() drives them:   *)
(* one encode call, then one decode call on what the encoder wrote.       *)
(*                                                                         *)
(* Every CODEC loop is stepped one iteration per action.  A return value  *)
(* SHRINK_ELINE is the negated source line of the return statement.       *)
(***************************************************************************)
EXTENDS Integers, Sequences, FiniteSets, TLC

VARIABLES
    build,      \* the build: the values of the macros SHRINK_EI, SHRINK_EJ, SHRINK_P
    codec,      \* the codec argument of shrink()
    encode,     \* the encode argument of shrink(): 1 encode, 0 decode
    pc,         \* where the running call is
    io,         \* the shrink_t of the running call (streams, counters, buffer)
    msg,        \* shrink_test's msg: the bytes handed to the encode call
    buffer0,    \* the working buffer as the caller handed it to the encode call
    fresh,      \* whether the caller re-initialised the buffer before the decode call
    r1,         \* return value of the encode call ("none" until it returns)
    r2,         \* return value of the decode call
    compressed, \* what the encode call left in its output buffer
    complen,    \* *outlength after the encode call
    mtf,        \* locals of shrink_mtf_encode / shrink_mtf_decode
    lzp,        \* locals of shrink_lzp_encode / shrink_lzp_decode
    rle,        \* locals of shrink_rle_encode / shrink_rle_decode
    elias,      \* locals of shrink_elias_encode / shrink_elias_decode
    lzss,       \* locals of shrink_lzss_encode / shrink_lzss_decode
    hist        \* ghost: CODEC model snapshots taken after each byte of the encode call
                \* (MTF, LZP); the commands the encode call wrote (RLE)

vars == <<build, codec, encode, pc, io, msg, buffer0, fresh, r1, r2, compressed, complen,
          mtf, lzp, rle, elias, lzss, hist>>

\* what no CODEC step changes
call == <<build, codec, encode, msg, buffer0, fresh, compressed, complen>>

\* the locals of all CODECs
locals == <<mtf, lzp, rle, elias, lzss>>

----------------------------------------------------------------------------
(* Bounds of the model *)

\* longest input of the MTF specification
MaxMtfLen == 4

\* the byte values MTF inputs are drawn from
MtfBytes == {0, 1, 2, 255}

\* longest input of the RLE specification that is drawn byte by byte
MaxRleLen == 6

\* longest word in front of a long RLE input
MaxRlePre == 1

\* the byte values RLE inputs are drawn from
RleBytes == {0, 1}

\* longest input of the LZSS specification that is drawn byte by byte
MaxLzssLen == 6

\* longest word in front of a long LZSS input
MaxLzssPre == 1

\* the byte values LZSS inputs are drawn from
LzssBytes == {0, 1}

\* longest input of the Elias-Gamma specification
MaxEliasLen == 3

\* the byte values Elias-Gamma inputs are drawn from: every nibble value occurs
EliasBytes == {0, 1, 35, 69, 103, 137, 171, 205, 239, 255}

\* longest input of the LZP specification
MaxLzpLen == 9

\* the byte values LZP inputs are drawn from
LzpBytes == {0, 1}

\* the bytes a caller may have filled the working buffer with (memset)
Fills == {0, 1}

\* longest input of the specification of all five CODECs
MaxLen == 2

\* the byte values the inputs of all five CODECs are drawn from
Bytes == {0, 1}

\* longest input of the calls with a small output buffer
MaxCapLen == 3

\* the greatest *outlength of those calls
MaxCap == 4

\* longest input of the RLE decoder that is not an output of the encoder
MaxRleDecLen == 4

\* the byte values of those inputs: run commands 0, 1 and SHRINK_RL, literal
\* commands of one byte, of two bytes and of the most bytes
RleDecBytes == {0, 1, 128, 129, 130, 255}

\* longest input of a decode call of LZSS on bytes no encoder wrote
MaxLzssDecLen == 3

\* bytes of those inputs: literals and references of the TestBuild, position 0
\* or N - 1, length P or F
LzssDecBytes == {0, 127, 128, 255}

\* longest input of a decode call of Elias-Gamma on bytes no encoder wrote
MaxEliasDecLen == 2

\* bytes of those inputs: 241 and 0 hold the code of the terminal value, 241
\* and 128 the code one above it, 255 a code of more than 4 one-bits
EliasDecBytes == {0, 128, 241, 255}

\* longest input given to the builds of LZP
MaxLzpOrderLen == 3

\* the byte values of those inputs
LzpOrderBytes == {0, 1, 16, 255}

\* the values of SHRINK_LZP_HASH_ORDER those builds are made with
LzpOrders == {8, 12, 16}

\* the builds of LZSS that are compared: SHRINK_EI from 6 to MaxEI, SHRINK_EJ
\* from 0 to MaxEJ, SHRINK_P from 2 to MaxP
MaxEI == 7

MaxEJ == 2

MaxP == 3

\* longest input given to those builds
MaxBuildLen == 3

\* longest input of a repeated pattern given to those builds
MaxBuildRun == 8

\* a pattern that repeats what the dictionary holds up to its last byte
BuildPatterns == {<<0, 0, 0, 1>>}

\* longest input of a call that writes to an unbounded sink
MaxSinkLen == 2

\* the byte values the inputs of such a call are drawn from
SinkBytes == {0, 1, 255}

\* the width in bits of the size_t counters io->read and io->wrote: wide enough
\* for every count a call on SHRINK_TEST_BUFFER_LENGTH bytes reaches
SizeBits == 10

Words(S, n) == UNION {[1..k -> S] : k \in 0..n}

----------------------------------------------------------------------------
(* The working buffer io->buffer: buffer_length bytes, kept as the byte it was
   filled with (def) and the entries that differ from it (over) *)

Buffer(len, fill) == [length |-> len, def |-> fill, over |-> [k \in {} |-> 0]]

\* buffer[k]
Rd(t, k) == IF k \in DOMAIN t.over THEN t.over[k] ELSE t.def

\* buffer[k] = v
Wr(t, k, v) ==
    [t EXCEPT !.over =
        IF v = t.def
        THEN [h \in DOMAIN @ \ {k} |-> @[h]]
        ELSE [h \in DOMAIN @ \cup {k} |-> IF h = k THEN v ELSE @[h]]]

\* the same buffer with every byte kept (mem), as the LZSS window uses it
Window(len, fill) == [length |-> len, mem |-> [k \in 0..(len - 1) |-> fill]]

\* buffer[k]
At(t, k) == t.mem[k]

\* buffer[k] = v
Set(t, k, v) == [t EXCEPT !.mem[k] = v]

\* buffer[start + k - 1] = bytes[k] for every k
WrSeq(t, start, bytes) ==
    [t EXCEPT !.mem = [h \in DOMAIN @ |->
        IF h >= start /\ h < start + Len(bytes) THEN bytes[h - start + 1] ELSE @[h]]]

\* memmove(buffer, buffer + n, n)
Memmove(t, n) == [t EXCEPT !.mem = [h \in DOMAIN @ |-> IF h < n THEN @[h + n] ELSE @[h]]]

----------------------------------------------------------------------------
(* Bit operations on C unsigned values *)

RECURSIVE Xor(_, _)
Xor(a, b) ==
    IF a = 0 THEN b
    ELSE IF b = 0 THEN a
    ELSE ((a + b) % 2) + 2 * Xor(a \div 2, b \div 2)

\* 1 << k
Shl1(k) == 2 ^ k

\* (v & (1 << k)) != 0
Bit(v, k) == (v \div (2 ^ k)) % 2 = 1

----------------------------------------------------------------------------
(* Byte streams: shrink_buffer_t, shrink_get, shrink_put *)

SHRINK_TEST_BUFFER_LENGTH == 512

\* shrink_buffer_get: the next byte of the in-memory input, or a negative value
shrink_buffer_get(b) ==
    IF b.used >= Len(b.b)
    THEN [r |-> -153, b |-> b]
    ELSE [r |-> b.b[b.used + 1], b |-> [b EXCEPT !.used = @ + 1]]

\* shrink_buffer_put: append to the in-memory output unless it is full
shrink_buffer_put(ch, b) ==
    IF Len(b.b) >= b.length
    THEN [r |-> -162, b |-> [b EXCEPT !.refused = TRUE]]
    ELSE [r |-> ch % 256, b |-> [b EXCEPT !.b = Append(@, ch % 256)]]

\* a put callback of a caller of shrink(): every byte is taken, none is kept
sink_put(ch, b) == [r |-> ch % 256, b |-> b]

\* shrink_get: io->get, counting the bytes read
shrink_get(i) ==
    LET g == shrink_buffer_get(i.in)
    IN  [r |-> g.r,
         io |-> [i EXCEPT !.in = g.b,
                          !.read = (@ + (IF g.r >= 0 THEN 1 ELSE 0)) % 2 ^ SizeBits]]

\* shrink_put: io->put, counting the bytes written
shrink_put(ch, i) ==
    LET p == IF i.put = "sink_put" THEN sink_put(ch, i.out) ELSE shrink_buffer_put(ch, i.out)
    IN  [r |-> p.r,
         io |-> [i EXCEPT !.out = p.b,
                          !.wrote = (@ + (IF p.r >= 0 THEN 1 ELSE 0)) % 2 ^ SizeBits]]

\* shrink_put for each byte of bytes in turn, stopping at the first failure:
\* n is the number of bytes that were put
PutSeq(bytes, i) ==
    LET room == i.out.length - Len(i.out.b)
        n == IF i.put = "sink_put" \/ Len(bytes) <= room THEN Len(bytes)
             ELSE IF room > 0 THEN room ELSE 0
    IN  [n |-> n,
         r |-> IF n = Len(bytes) THEN 0 ELSE -162,
         io |-> [i EXCEPT !.out.b = IF i.put = "sink_put" THEN @
                                    ELSE @ \o [k \in 1..n |-> bytes[k] % 256],
                          !.out.refused = @ \/ n < Len(bytes),
                          !.wrote = (@ + n) % 2 ^ SizeBits]]

\* the bytes that n calls of shrink_get will return, fewer at the end of input
Ahead(i, n) ==
    LET left == Len(i.in.b) - i.in.used
        m == IF n <= left THEN n ELSE IF left > 0 THEN left ELSE 0
    IN  [k \in 1..m |-> i.in.b[i.in.used + k]]

\* the io state after n calls of shrink_get that all returned a byte
Got(i, n) == [i EXCEPT !.in.used = @ + n, !.read = (@ + n) % 2 ^ SizeBits]

\* the shrink_t that shrink_buffer builds around its arguments; log is a ghost:
\* the commands rle_write_buf and rle_write_run have put, each with its kind and
\* the count of bytes written when its command byte was put; out.refused is a
\* ghost: whether shrink_buffer_put has returned its error in this call
shrink_buffer(buffer, in, outlength) ==
    [put    |-> "shrink_buffer_put",
     log    |-> <<>>,
     in     |-> [b |-> in, used |-> 0],
     out    |-> [b |-> <<>>, length |-> outlength, refused |-> FALSE],
     read   |-> 0,
     wrote  |-> 0,
     buffer |-> buffer]

----------------------------------------------------------------------------
(* The bit buffer: shrink_bit_buffer_t *)

BitBuffer(mask) == [buffer |-> 0, mask |-> mask]

\* shrink_bit_buffer_put_bit: r is 0, or -1 when the byte could not be put
shrink_bit_buffer_put_bit(i, bit, one) ==
    LET \* bit->buffer |= bit->mask
        buffer == IF one /\ bit.mask > 0 /\ (bit.buffer \div bit.mask) % 2 = 0
                  THEN bit.buffer + bit.mask
                  ELSE bit.buffer
        mask == bit.mask \div 2
    IN  IF mask = 0
        THEN LET p == shrink_put(buffer, i)
             IN  IF p.r < 0
                 THEN [r |-> -1, io |-> p.io, bit |-> [buffer |-> buffer, mask |-> 0]]
                 ELSE [r |-> 0, io |-> p.io, bit |-> [buffer |-> 0, mask |-> 128]]
        ELSE [r |-> 0, io |-> i, bit |-> [buffer |-> buffer, mask |-> mask]]

\* put_bit for each of bits in turn, stopping at the first failure
RECURSIVE PutBits(_, _, _)
PutBits(i, bit, bits) ==
    IF bits = <<>> THEN [r |-> 0, io |-> i, bit |-> bit]
    ELSE CHOOSE res \in
            {IF p.r < 0 THEN p ELSE PutBits(p.io, p.bit, Tail(bits)) :
                p \in {shrink_bit_buffer_put_bit(i, bit, Head(bits))}} : TRUE

\* the loop of shrink_bit_buffer_get_n_bits from iteration k on, x accumulated
RECURSIVE GetBitsFrom(_, _, _, _, _)
GetBitsFrom(i, bit, n, k, x) ==
    IF k >= n THEN [r |-> x, io |-> i, bit |-> bit]
    ELSE CHOOSE res \in
            {IF g.r < 0
             THEN [r |-> -1, io |-> g.io, bit |-> g.bit]
             ELSE GetBitsFrom(g.io, [g.bit EXCEPT !.mask = @ \div 2], n, k + 1,
                              2 * x + (IF (g.bit.buffer \div g.bit.mask) % 2 = 1 THEN 1 ELSE 0)) :
                \* if (bit->mask == 0) { ch = shrink_get(io); ... buffer = ch; mask = 128; }
                g \in {IF bit.mask = 0
                       THEN LET c == shrink_get(i)
                            IN  [r |-> c.r, io |-> c.io,
                                 bit |-> IF c.r < 0 THEN bit ELSE [buffer |-> c.r, mask |-> 128]]
                       ELSE [r |-> bit.buffer, io |-> i, bit |-> bit]}} : TRUE

\* a get that fills a field the end of the input cut short with zero bits
shrink_bit_buffer_get_n_bits_padded(i, bit, n) ==
    LET g == GetBitsFrom(i, bit, n, 0, 0)
    IN  IF g.r < 0 /\ n > 1 THEN [g EXCEPT !.r = 0] ELSE g

\* shrink_bit_buffer_get_n_bits: r is the n bits read, or -1 at the end of input
shrink_bit_buffer_get_n_bits(i, bit, n) == GetBitsFrom(i, bit, n, 0, 0)

\* a flush that leaves the partly filled byte where it is
shrink_bit_buffer_flush_never(i, bit) == [r |-> 0, io |-> i, bit |-> [bit EXCEPT !.mask = 0]]

\* a flush that does not look at what shrink_put returned
shrink_bit_buffer_flush_unchecked(i, bit) ==
    [r |-> 0,
     io |-> IF bit.mask # 128 THEN shrink_put(bit.buffer, i).io ELSE i,
     bit |-> [bit EXCEPT !.mask = 0]]

\* shrink_bit_buffer_flush: put the partly filled byte, if any
shrink_bit_buffer_flush(i, bit) ==
    IF bit.mask # 128
    THEN LET p == shrink_put(bit.buffer, i)
         IN  IF p.r < 0
             THEN [r |-> -1, io |-> p.io, bit |-> bit]
             ELSE [r |-> 0, io |-> p.io, bit |-> [bit EXCEPT !.mask = 0]]
    ELSE [r |-> 0, io |-> i, bit |-> [bit EXCEPT !.mask = 0]]

\* the bits of v selected by mask, mask >> 1, ..., 1 in that order
RECURSIVE MaskBits(_, _)
MaskBits(v, mask) ==
    IF mask = 0 THEN <<>>
    ELSE <<(v \div mask) % 2 = 1>> \o MaskBits(v, mask \div 2)

----------------------------------------------------------------------------
(* The calls: shrink(), and the return to shrink_buffer / shrink_test *)

\* the return of the running CODEC with value v, left in io state i
Return(v, i) ==
    /\ pc' = "ret"
    /\ io' = i
    /\ IF encode = 1
       THEN r1' = v /\ UNCHANGED r2
       ELSE r2' = v /\ UNCHANGED r1

\* shrink(): select the CODEC and the direction
shrink ==
    /\ pc = "shrink"
    /\ pc' = CASE codec = "MTF" -> (IF encode = 1 THEN "mtf_encode" ELSE "mtf_decode")
                [] codec = "LZP" -> (IF encode = 1 THEN "lzp_encode" ELSE "lzp_decode")
                [] codec = "ELIAS" -> (IF encode = 1 THEN "elias_encode" ELSE "elias_decode")
                [] codec = "RLE" -> (IF encode = 1 THEN "rle_encode" ELSE "rle_decode")
                [] codec = "LZSS" -> (IF encode = 1 THEN "lzss_encode" ELSE "lzss_decode")
    /\ UNCHANGED <<call, locals, io, r1, r2, hist>>

----------------------------------------------------------------------------
(* LZSS.  The library's parameters are compile time macros (#ifndef), which
   the model keeps in build.  The specifications that do not vary them take
   the build with -DSHRINK_EI=6 -DSHRINK_EJ=2, the smallest dictionary
   shrink_tests' BUILD_BUG_ONs admit, so that inputs of a few hundred bytes
   make the window slide. *)

TestBuild == [ei |-> 6, ej |-> 2, p |-> 2, order |-> 16]

SHRINK_EI == build.ei

SHRINK_EJ == build.ej

SHRINK_P == build.p

SHRINK_N == 2 ^ SHRINK_EI

SHRINK_F == 2 ^ SHRINK_EJ + (SHRINK_P - 1)

\* an encoder whose cursor starts one byte behind the first byte of the input
LzssEncodeLocals_skip ==
    [bit |-> BitBuffer(128), bufferend |-> 0, r |-> SHRINK_N - SHRINK_F + 1, s |-> 0, x |-> 0, y |-> 1]

\* shrink_lzss_t l = { .bit = { .mask = 128 } }; bufferend, r, s; x, y as the
\* last iteration left them
LzssEncodeLocals ==
    [bit |-> BitBuffer(128), bufferend |-> 0, r |-> SHRINK_N - SHRINK_F, s |-> 0, x |-> 0, y |-> 1]

\* a decoder whose cursor starts at the front of the dictionary
LzssDecodeLocals_front == [bit |-> BitBuffer(0), r |-> 0, at |-> {}]

\* shrink_lzss_t l = { .bit = { .mask = 0 } }; r; at is a ghost: the indexes of
\* io->buffer that the last iteration of the decoder's loop read or wrote
LzssDecodeLocals == [bit |-> BitBuffer(0), r |-> SHRINK_N - SHRINK_F, at |-> {}]

\* shrink_output_literal: the bit 1, then the 8 bits of ch
shrink_output_literal(i, bit, ch) ==
    LET p == PutBits(i, bit, <<TRUE>> \o MaskBits(ch, 128))
    IN  [r |-> IF p.r < 0 THEN -233 ELSE 0, io |-> p.io, bit |-> p.bit]

\* a shrink_output_reference that puts the length field before the position
shrink_output_reference_swapped(i, bit, position, length) ==
    LET p == PutBits(i, bit, <<FALSE>> \o MaskBits(length, (2 ^ SHRINK_EJ) \div 2)
                                     \o MaskBits(position, SHRINK_N \div 2))
    IN  [r |-> IF p.r < 0 THEN -245 ELSE 0, io |-> p.io, bit |-> p.bit]

\* shrink_output_reference: the bit 0, EI bits of position, EJ bits of length
shrink_output_reference(i, bit, position, length) ==
    LET p == PutBits(i, bit, <<FALSE>> \o MaskBits(position, SHRINK_N \div 2)
                                     \o MaskBits(length, (2 ^ SHRINK_EJ) \div 2))
    IN  [r |-> IF p.r < 0 THEN -245 ELSE 0, io |-> p.io, bit |-> p.bit]

\* while (bufferend < 2N) { c = shrink_get; if (c < 0) break; buffer[bufferend++] = c; }
LzssFill(i, bufferend) ==
    LET a == Ahead(i, 2 * SHRINK_N - bufferend)
        got == Got(i, Len(a))
        end == bufferend + Len(a)
    IN  [bufferend |-> end,
         io |-> [(IF end < 2 * SHRINK_N THEN shrink_get(got).io ELSE got)
                    EXCEPT !.buffer = WrSeq(i.buffer, bufferend, a)]]

\* shrink_lzss_encode up to its main loop: the size check and the first fill
LzssEncodeEntry ==
    /\ pc = "lzss_encode"
    /\ IF 2 * SHRINK_N > io.buffer.length
       THEN Return(-261, io) /\ UNCHANGED lzss
       ELSE \E f \in {LzssFill(io, SHRINK_N - SHRINK_F)} :
                /\ lzss' = [LzssEncodeLocals EXCEPT !.bufferend = f.bufferend]
                /\ io' = f.io
                /\ pc' = IF SHRINK_N - SHRINK_F < f.bufferend
                         THEN "lzss_encode_loop" ELSE "lzss_encode_flush"
                /\ UNCHANGED <<r1, r2>>
    /\ UNCHANGED <<call, mtf, lzp, rle, elias, hist>>

\* a run of matches that counts the byte that ended it
LzssRun_over(buffer, i, r, f1) ==
    1 + (CHOOSE j \in 1..f1 :
            /\ \A q \in 1..(j - 1) : At(buffer, i + q) = At(buffer, r + q)
            /\ j = f1 \/ At(buffer, i + j) # At(buffer, r + j))

\* the run of matches: the first j in 1..f1 with j = f1 or
\* buffer[i + j] != buffer[r + j]
LzssRun(buffer, i, r, f1) ==
    CHOOSE j \in 1..f1 :
        /\ \A q \in 1..(j - 1) : At(buffer, i + q) = At(buffer, r + q)
        /\ j = f1 \/ At(buffer, i + j) # At(buffer, r + j)

\* the search for the longest match, for (i = s; i < r; i++): memchr visits
\* the positions of s..r-1 that hold buffer[r] in ascending order, each gives a
\* run of matches, (x, y) moves to a run longer than every run before it, and
\* the search stops behind the first run with y + SHRINK_P - 1 > SHRINK_F
LzssSearch(buffer, s, r, bufferend) ==
    LET f1 == IF SHRINK_F <= bufferend - r THEN SHRINK_F ELSE bufferend - r
    IN  CHOOSE res \in
            {LET stops == {m \in DOMAIN run : run[m] + SHRINK_P - 1 > SHRINK_F}
                 seen == {m \in DOMAIN run : \A q \in stops : m <= q}
                 y == CHOOSE j \in {1} \cup {run[m] : m \in seen} :
                         \A m \in seen : run[m] <= j
                 first == CHOOSE m \in seen : run[m] = y /\ \A q \in seen : run[q] = y => m <= q
             IN  IF y = 1 THEN [x |-> 0, y |-> 1] ELSE [x |-> first, y |-> y] :
                run \in {[m \in {q \in s..(r - 1) : At(buffer, q) = At(buffer, r)} |->
                            LzssRun(buffer, m, r, f1)]}} : TRUE

\* one iteration of the encoder's main loop: search, emit, advance, slide
LzssEncodeStep ==
    /\ pc = "lzss_encode_loop"
    /\ \E m \in {LzssSearch(io.buffer, lzss.s, lzss.r, lzss.bufferend)} :
       \E o \in {IF m.y <= SHRINK_P
                  THEN shrink_output_literal(io, lzss.bit, At(io.buffer, lzss.r))
                  ELSE shrink_output_reference(io, lzss.bit, m.x % SHRINK_N, m.y - SHRINK_P)} :
       LET r == lzss.r
           s == lzss.s
           y == IF m.y <= SHRINK_P THEN 1 ELSE m.y
           r2_ == r + y
           s2 == s + y
           slide == r2_ >= 2 * SHRINK_N - SHRINK_F
           f == LzssFill([o.io EXCEPT !.buffer = Memmove(@, SHRINK_N)],
                         lzss.bufferend - SHRINK_N)
       IN  IF o.r < 0
           THEN /\ Return(IF m.y <= SHRINK_P THEN -298 ELSE -301, o.io)
                /\ lzss' = [lzss EXCEPT !.bit = o.bit, !.x = m.x, !.y = y]
           ELSE IF ~slide
           THEN /\ lzss' = [lzss EXCEPT !.bit = o.bit, !.r = r2_, !.s = s2, !.x = m.x, !.y = y]
                /\ io' = o.io
                /\ pc' = IF r2_ < lzss.bufferend THEN "lzss_encode_loop" ELSE "lzss_encode_flush"
                /\ UNCHANGED <<r1, r2>>
           ELSE IF lzss.bufferend < SHRINK_N \/ r2_ < SHRINK_N \/ s2 < SHRINK_N
           THEN \* one of the three assertions before the subtraction fails
                /\ pc' = "abort"
                /\ io' = o.io
                /\ lzss' = [lzss EXCEPT !.bit = o.bit, !.r = r2_, !.s = s2, !.x = m.x, !.y = y]
                /\ UNCHANGED <<r1, r2>>
           ELSE /\ lzss' = [bit |-> o.bit, bufferend |-> f.bufferend, r |-> r2_ - SHRINK_N,
                            s |-> s2 - SHRINK_N, x |-> m.x, y |-> y]
                /\ io' = f.io
                /\ pc' = IF r2_ - SHRINK_N < f.bufferend
                         THEN "lzss_encode_loop" ELSE "lzss_encode_flush"
                /\ UNCHANGED <<r1, r2>>
    /\ UNCHANGED <<call, mtf, lzp, rle, elias, hist>>

\* the end of shrink_lzss_encode: return shrink_bit_buffer_flush(...)
LzssEncodeFlush ==
    /\ pc = "lzss_encode_flush"
    /\ \E f \in {shrink_bit_buffer_flush(io, lzss.bit)} :
           /\ lzss' = [lzss EXCEPT !.bit = f.bit]
           /\ Return(f.r, f.io)
    /\ UNCHANGED <<call, mtf, lzp, rle, elias, hist>>

\* shrink_lzss_decode up to its loop: the size check
LzssDecodeEntry ==
    /\ pc = "lzss_decode"
    /\ IF 2 * SHRINK_N > io.buffer.length
       THEN Return(-333, io) /\ UNCHANGED lzss
       ELSE /\ lzss' = LzssDecodeLocals
            /\ pc' = "lzss_decode_loop"
            /\ UNCHANGED <<io, r1, r2>>
    /\ UNCHANGED <<call, mtf, lzp, rle, elias, hist>>

\* a copy whose cursor runs on behind the end of the dictionary
RECURSIVE LzssCopy_nowrap(_, _, _, _, _)
LzssCopy_nowrap(i0, r, i, k, n) ==
    IF k >= n THEN [r |-> 0, io |-> i0, pos |-> r, at |-> {}]
    ELSE CHOOSE res \in
            {IF p.r # c THEN [r |-> -355, io |-> p.io, pos |-> r, at |-> {(i + k) % SHRINK_N}]
             ELSE [LzssCopy_nowrap([p.io EXCEPT !.buffer = Set(@, r, c)],
                                   (r + 1) % (2 * SHRINK_N), i, k + 1, n)
                      EXCEPT !.at = @ \cup {(i + k) % SHRINK_N, r}] :
                c \in {At(i0.buffer, (i + k) % SHRINK_N)},
                p \in {shrink_put(At(i0.buffer, (i + k) % SHRINK_N), i0)}} : TRUE

\* the copy of a reference from its k-th byte on: position i, j + P bytes
RECURSIVE LzssCopy(_, _, _, _, _)
LzssCopy(i0, r, i, k, n) ==
    IF k >= n THEN [r |-> 0, io |-> i0, pos |-> r, at |-> {}]
    ELSE CHOOSE res \in
            {IF p.r # c THEN [r |-> -355, io |-> p.io, pos |-> r, at |-> {(i + k) % SHRINK_N}]
             ELSE [LzssCopy([p.io EXCEPT !.buffer = Set(@, r, c)],
                            (r + 1) % SHRINK_N, i, k + 1, n)
                      EXCEPT !.at = @ \cup {(i + k) % SHRINK_N, r}] :
                c \in {At(i0.buffer, (i + k) % SHRINK_N)},
                p \in {shrink_put(At(i0.buffer, (i + k) % SHRINK_N), i0)}} : TRUE

\* one iteration of the decoder's loop: one literal or one reference
LzssDecodeStep ==
    /\ pc = "lzss_decode_loop"
    /\ \E c \in {shrink_bit_buffer_get_n_bits(io, lzss.bit, 1)} :
       \E lit \in {shrink_bit_buffer_get_n_bits(c.io, c.bit, 8)} :
       \E i \in {shrink_bit_buffer_get_n_bits(c.io, c.bit, SHRINK_EI)} :
       \E j \in {shrink_bit_buffer_get_n_bits(i.io, i.bit, SHRINK_EJ)} :
       LET p == shrink_put(lit.r, lit.io)
           cp == LzssCopy(j.io, lzss.r, i.r, 0, j.r + SHRINK_P)
       IN  IF c.r < 0
           THEN Return(0, c.io) /\ lzss' = [lzss EXCEPT !.bit = c.bit, !.at = {}]
           ELSE IF c.r = 1
           THEN IF lit.r < 0
                THEN Return(0, lit.io) /\ lzss' = [lzss EXCEPT !.bit = lit.bit, !.at = {}]
                ELSE IF p.r # lit.r
                THEN Return(-341, p.io) /\ lzss' = [lzss EXCEPT !.bit = lit.bit, !.at = {}]
                ELSE /\ lzss' = [bit |-> lit.bit, r |-> (lzss.r + 1) % SHRINK_N, at |-> {lzss.r}]
                     /\ io' = [p.io EXCEPT !.buffer = Set(@, lzss.r, lit.r)]
                     /\ UNCHANGED <<pc, r1, r2>>
           ELSE IF i.r < 0
           THEN Return(0, i.io) /\ lzss' = [lzss EXCEPT !.bit = i.bit, !.at = {}]
           ELSE IF j.r < 0
           THEN Return(0, j.io) /\ lzss' = [lzss EXCEPT !.bit = j.bit, !.at = {}]
           ELSE IF cp.r < 0
           THEN Return(cp.r, cp.io) /\ lzss' = [bit |-> j.bit, r |-> cp.pos, at |-> cp.at]
           ELSE /\ lzss' = [bit |-> j.bit, r |-> cp.pos, at |-> cp.at]
                /\ io' = cp.io
                /\ UNCHANGED <<pc, r1, r2>>
    /\ UNCHANGED <<call, mtf, lzp, rle, elias, hist>>

----------------------------------------------------------------------------
(* RLE *)

SHRINK_RL == 128

SHRINK_ROVER == 1

\* uint8_t buf[SHRINK_RL] = { 0, }; int idx = 0, prev = -1; c, j as last left;
\* again is a ghost: how often the call has taken goto again
RleLocals ==
    [buf |-> [k \in 0..(SHRINK_RL - 1) |-> 0], idx |-> 0, prev |-> -1, c |-> 0, j |-> 0,
     again |-> 0]

\* rle_write_buf: a literal block, command byte idx + SHRINK_RL
rle_write_buf(i, buf, idx) ==
    IF idx = 0 THEN [r |-> 0, io |-> i]
    ELSE LET p == shrink_put(idx + SHRINK_RL, i)
         IN  IF p.r < 0 THEN [r |-> -370, io |-> p.io]
             ELSE LET q == PutSeq([k \in 1..idx |-> buf[k - 1]],
                                  [p.io EXCEPT !.log = Append(@, [kind |-> "literal", at |-> p.io.wrote])])
                  IN  [r |-> IF q.r < 0 THEN -373 ELSE 0, io |-> q.io]

\* rle_write_run: a run, command byte count, then the byte
rle_write_run(i, count, ch) ==
    LET p == shrink_put(count, i)
    IN  IF p.r < 0 THEN [r |-> -382, io |-> p.io]
        ELSE LET q == shrink_put(ch, [p.io EXCEPT !.log = Append(@, [kind |-> "run", at |-> p.io.wrote])])
             IN  IF q.r < 0 THEN [r |-> -384, io |-> q.io] ELSE [r |-> 0, io |-> q.io]

\* a scan that stops at j = SHRINK_RL
RleScan_short(i, prev, k) ==
    LET lim == IF k < SHRINK_RL THEN SHRINK_RL - k ELSE 0
        a == Ahead(i, lim)
        t == CHOOSE m \in 0..Len(a) :
                /\ \A q \in 1..m : a[q] = prev
                /\ m = Len(a) \/ a[m + 1] # prev
        g == shrink_get(Got(i, t))
    IN  [c |-> g.r, j |-> k + t, io |-> g.io]

\* for (j = k; (c = shrink_get(io)) == prev && j < SHRINK_RL + SHRINK_ROVER; j++);
\* the loop runs t times, over the bytes equal to prev that are ahead, at most
\* up to j = SHRINK_RL + SHRINK_ROVER; the get that ends it leaves c
RleScan(i, prev, k) ==
    LET lim == IF k < SHRINK_RL + SHRINK_ROVER THEN SHRINK_RL + SHRINK_ROVER - k ELSE 0
        a == Ahead(i, lim)
        t == CHOOSE m \in 0..Len(a) :
                /\ \A q \in 1..m : a[q] = prev
                /\ m = Len(a) \/ a[m + 1] # prev
        g == shrink_get(Got(i, t))
    IN  [c |-> g.r, j |-> k + t, io |-> g.io]

\* an append that writes the block out once the buffer is full
RleAppend_full(i, buf, idx, ch) ==
    LET buf2 == [buf EXCEPT ![idx] = ch]
        idx2 == idx + 1
    IN  IF idx2 = SHRINK_RL
        THEN LET w == rle_write_buf(i, buf2, idx2)
             IN  [r |-> w.r, io |-> w.io, buf |-> buf2, idx |-> IF w.r < 0 THEN idx2 ELSE 0]
        ELSE [r |-> 0, io |-> i, buf |-> buf2, idx |-> idx2]

\* buf[idx++] = ch; if (idx == SHRINK_RL - 1) { rle_write_buf; idx = 0; }
RleAppend(i, buf, idx, ch) ==
    LET buf2 == [buf EXCEPT ![idx] = ch]
        idx2 == idx + 1
    IN  IF idx2 = SHRINK_RL - 1
        THEN LET w == rle_write_buf(i, buf2, idx2)
             IN  [r |-> w.r, io |-> w.io, buf |-> buf2, idx |-> IF w.r < 0 THEN idx2 ELSE 0]
        ELSE [r |-> 0, io |-> i, buf |-> buf2, idx |-> idx2]

\* while (j-- >= 0) { append prev }: the too small run goes to the literals
RECURSIVE RleLiterals(_, _, _, _, _)
RleLiterals(i, buf, idx, prev, j) ==
    IF j < 0 THEN [r |-> 0, io |-> i, buf |-> buf, idx |-> idx, j |-> j - 1]
    ELSE CHOOSE res \in
            {IF a.r < 0 THEN [r |-> -416, io |-> a.io, buf |-> a.buf, idx |-> a.idx, j |-> j - 1]
             ELSE RleLiterals(a.io, a.buf, a.idx, prev, j - 1) :
                a \in {RleAppend(i, buf, idx, prev)}} : TRUE

\* if (j > SHRINK_ROVER) { the literals so far, then the run } else { the run
\* goes to the literals }: j bytes equal to prev were scanned, c ended the scan
RleRun(i, buf, idx, prev, j, c) ==
    IF j > SHRINK_ROVER
    THEN LET w == IF idx >= 1 THEN rle_write_buf(i, buf, idx) ELSE [r |-> 0, io |-> i]
             run == rle_write_run(w.io, j - SHRINK_ROVER, prev)
         IN  IF w.r < 0
             THEN [r |-> -406, io |-> w.io, buf |-> buf, idx |-> idx, j |-> j, c |-> c]
             ELSE [r |-> IF run.r < 0 THEN -410 ELSE 0, io |-> run.io,
                   buf |-> buf, idx |-> 0, j |-> j, c |-> c]
    ELSE [c |-> c] @@ RleLiterals(i, buf, idx, prev, j)

\* a run found (c == prev), from the label again with j starting at k, to the
\* end of the if: kind is "error" (return r), "end" (goto end) or "fall"
RECURSIVE RleAgain(_, _, _, _, _)
RleAgain(i, buf, idx, prev, k) ==
    CHOOSE res \in
        {IF out.r < 0
         THEN [kind |-> "error", r |-> out.r, io |-> out.io, buf |-> out.buf,
               idx |-> out.idx, c |-> out.c, j |-> out.j, again |-> 0]
         ELSE IF out.c < 0
         THEN [kind |-> "end", r |-> 0, io |-> out.io, buf |-> out.buf,
               idx |-> out.idx, c |-> out.c, j |-> out.j, again |-> 0]
         ELSE IF out.c = prev /\ out.j = SHRINK_RL
         THEN [RleAgain(out.io, out.buf, out.idx, prev, 0) EXCEPT !.again = @ + 1]
         ELSE [kind |-> "fall", r |-> 0, io |-> out.io, buf |-> out.buf,
               idx |-> out.idx, c |-> out.c, j |-> out.j, again |-> 0] :
            out \in {RleRun(sc.io, buf, idx, prev, sc.j, sc.c) :
                        sc \in {RleScan(i, prev, k)}}} : TRUE

\* one iteration of shrink_rle_encode's outer loop, from its condition
RleEncodeStep ==
    /\ pc = "rle_encode"
    /\ \E g \in {shrink_get(io)} :
       \E a \in {IF g.r >= 0 /\ g.r = rle.prev
                  THEN \* if (idx == 1 && buf[0] == c) { k++; idx = 0; }
                       IF rle.idx = 1 /\ rle.buf[0] = g.r
                       THEN RleAgain(g.io, rle.buf, 0, rle.prev, 1)
                       ELSE RleAgain(g.io, rle.buf, rle.idx, rle.prev, 0)
                  ELSE [kind |-> "fall", r |-> 0, io |-> g.io, buf |-> rle.buf,
                        idx |-> rle.idx, c |-> g.r, j |-> rle.j, again |-> 0]} :
       LET c == g.r
           l == RleAppend(a.io, a.buf, a.idx, a.c)
       IN  IF c < 0
           THEN /\ rle' = [rle EXCEPT !.c = c]
                /\ io' = g.io
                /\ pc' = "rle_encode_end"
                /\ UNCHANGED <<r1, r2>>
           ELSE IF a.kind = "error"
           THEN /\ Return(a.r, a.io)
                /\ rle' = [rle EXCEPT !.buf = a.buf, !.idx = a.idx, !.c = a.c, !.j = a.j,
                                      !.again = @ + a.again]
           ELSE IF a.kind = "end"
           THEN /\ rle' = [rle EXCEPT !.buf = a.buf, !.idx = a.idx, !.c = a.c, !.j = a.j,
                                      !.again = @ + a.again]
                /\ io' = a.io
                /\ pc' = "rle_encode_end"
                /\ UNCHANGED <<r1, r2>>
           ELSE IF l.r < 0
           THEN /\ Return(-431, l.io)
                /\ rle' = [rle EXCEPT !.buf = l.buf, !.idx = l.idx, !.c = a.c, !.j = a.j,
                                      !.again = @ + a.again]
           ELSE /\ rle' = [buf |-> l.buf, idx |-> l.idx, prev |-> a.c, c |-> a.c, j |-> a.j,
                            again |-> rle.again + a.again]
                /\ io' = l.io
                /\ UNCHANGED <<pc, r1, r2>>
    /\ UNCHANGED <<call, mtf, lzp, elias, lzss, hist>>

\* the label end of shrink_rle_encode: what is left in the buffer
RleEncodeEnd ==
    /\ pc = "rle_encode_end"
    /\ \E w \in {rle_write_buf(io, rle.buf, rle.idx)} :
           IF w.r < 0 THEN Return(-438, w.io) ELSE Return(0, w.io)
    /\ UNCHANGED <<call, locals, hist>>

\* a literal loop that takes the end of the input for the end of the block
RleCopy_lenient(i, count) ==
    LET a == Ahead(i, count)
        p == PutSeq(a, i)
    IN  IF p.n < Len(a)
        THEN [r |-> -451, io |-> Got(p.io, p.n + 1)]
        ELSE [r |-> 0, io |-> Got(p.io, p.n)]

\* the literal loop of the decoder: count bytes copied from the input
\* each byte is got and then put: the loop stops at the first get or put that
\* fails
RleCopy(i, count) ==
    LET a == Ahead(i, count)
        p == PutSeq(a, i)
    IN  IF p.n < Len(a)
        THEN [r |-> -451, io |-> Got(p.io, p.n + 1)]
        ELSE IF Len(a) < count
        THEN [r |-> -449, io |-> shrink_get(Got(p.io, p.n)).io]
        ELSE [r |-> 0, io |-> Got(p.io, p.n)]

\* the run loop of the decoder: count copies of c
RleRepeat(i, c, count) ==
    LET p == PutSeq([k \in 1..count |-> c], i)
    IN  [r |-> IF p.r < 0 THEN -461 ELSE 0, io |-> p.io]

\* a decoder that takes the command byte SHRINK_RL for a literal block
RleIsLiteral_ge(c) == c >= SHRINK_RL

\* a literal block of c - SHRINK_RL bytes exactly when c > SHRINK_RL
RleIsLiteral(c) == c > SHRINK_RL

\* a run count without the bias of SHRINK_ROVER
RleRunCount_nobias(c) == c + 1

\* the copies a run command c stands for
RleRunCount(c) == c + 1 + SHRINK_ROVER

\* one iteration of shrink_rle_decode's loop: one command
RleDecodeStep ==
    /\ pc = "rle_decode"
    /\ \E g \in {shrink_get(io)} :
       LET c == g.r
           lit == RleCopy(g.io, c - SHRINK_RL)
           d == shrink_get(g.io)
           run == RleRepeat(d.io, d.r, RleRunCount(c))
       IN  IF c < 0 THEN Return(0, g.io)
           ELSE IF RleIsLiteral(c)
           THEN IF lit.r < 0 THEN Return(lit.r, lit.io)
                ELSE io' = lit.io /\ UNCHANGED <<pc, r1, r2>>
           ELSE IF d.r < 0 THEN Return(-458, d.io)
           ELSE IF run.r < 0 THEN Return(run.r, run.io)
           ELSE io' = run.io /\ UNCHANGED <<pc, r1, r2>>
    /\ UNCHANGED <<call, locals, hist>>

----------------------------------------------------------------------------
(* Elias-Gamma *)

SHRINK_ELIAS_BITS == 4

SHRINK_ELIAS_TERMINAL == 1 + 2 ^ SHRINK_ELIAS_BITS

\* a shrink_gamma_size whose loop forgets v--
RECURSIVE shrink_gamma_size_nodec(_)
shrink_gamma_size_nodec(v) == IF v = 0 THEN 1 ELSE 2 + shrink_gamma_size_nodec(v \div 2)

\* shrink_gamma_size: while (v) { v--; sz += 2; v >>= 1; }
RECURSIVE GammaLoop(_, _)
GammaLoop(v, sz) == IF v = 0 THEN sz ELSE GammaLoop((v - 1) \div 2, sz + 2)

shrink_gamma_size(v) == GammaLoop(v, 1)

\* the encoder's bit buffers: buf for the output, ibuf for the input
EliasEncodeLocals == [buf |-> BitBuffer(128), ibuf |-> BitBuffer(0), end |-> 0]

\* the decoder's bit buffers: buf for the input, obuf for the output
EliasDecodeLocals == [buf |-> BitBuffer(0), obuf |-> BitBuffer(128)]

\* a binary part taken from c, the increment forgotten
EliasSuffix_noinc(c, bit_sz) == MaskBits(c, (2 ^ bit_sz) \div 2)

\* the binary part of a code: the low bit_sz bits of c + 1, high bit first
EliasSuffix(c, bit_sz) == MaskBits(c + 1, (2 ^ bit_sz) \div 2)

\* one iteration of shrink_elias_encode's loop: one nibble, or the terminal
EliasEncodeStep ==
    /\ pc = "elias_encode"
    /\ \E g \in {shrink_bit_buffer_get_n_bits(io, elias.ibuf, SHRINK_ELIAS_BITS)} :
       \E c \in {IF g.r < 0 THEN SHRINK_ELIAS_TERMINAL ELSE g.r} :
       \E bit_sz \in {(shrink_gamma_size(c) - 1) \div 2} :
       \E p1 \in {PutBits(g.io, elias.buf, [x \in 1..bit_sz |-> TRUE])} :
       \E p2 \in {shrink_bit_buffer_put_bit(p1.io, p1.bit, FALSE)} :
       \E p3 \in {PutBits(p2.io, p2.bit, EliasSuffix(c, bit_sz))} :
       LET end == IF g.r < 0 THEN 1 ELSE 0
       IN  IF p1.r < 0
           THEN Return(-508, p1.io) /\ elias' = [buf |-> p1.bit, ibuf |-> g.bit, end |-> end]
           ELSE IF p2.r < 0
           THEN Return(-512, p2.io) /\ elias' = [buf |-> p2.bit, ibuf |-> g.bit, end |-> end]
           ELSE IF p3.r < 0
           THEN Return(-518, p3.io) /\ elias' = [buf |-> p3.bit, ibuf |-> g.bit, end |-> end]
           ELSE /\ elias' = [buf |-> p3.bit, ibuf |-> g.bit, end |-> end]
                /\ io' = p3.io
                /\ pc' = IF end = 1 THEN "elias_encode_flush" ELSE "elias_encode"
                /\ UNCHANGED <<r1, r2>>
    /\ UNCHANGED <<call, mtf, lzp, rle, lzss, hist>>

\* the end of shrink_elias_encode: flush the output bit buffer
EliasEncodeFlush ==
    /\ pc = "elias_encode_flush"
    /\ \E f \in {shrink_bit_buffer_flush(io, elias.buf)} :
           /\ elias' = [elias EXCEPT !.buf = f.bit]
           /\ IF f.r < 0 THEN Return(-523, f.io) ELSE Return(0, f.io)
    /\ UNCHANGED <<call, mtf, lzp, rle, lzss, hist>>

\* the decoder's first inner loop: count one-bits up to a zero-bit or the end
\* of input; r is 0 (zero bit), -1 (end of input)
RECURSIVE EliasUnary(_, _, _)
EliasUnary(i, buf, bit_count) ==
    CHOOSE res \in
        {IF g.r < 0 THEN [r |-> -1, io |-> g.io, bit |-> g.bit, bit_count |-> bit_count]
         ELSE IF g.r = 0 THEN [r |-> 0, io |-> g.io, bit |-> g.bit, bit_count |-> bit_count]
         ELSE EliasUnary(g.io, g.bit, bit_count + 1) :
            g \in {shrink_bit_buffer_get_n_bits(i, buf, 1)}} : TRUE

\* an end test that lets the terminal code itself through
EliasIsTerminal_late(v) == v > SHRINK_ELIAS_TERMINAL + 1

\* if (v > SHRINK_ELIAS_TERMINAL) return 0;
EliasIsTerminal(v) == v > SHRINK_ELIAS_TERMINAL

\* the decoder's second inner loop, while (bit_count--): r is "v" when the loop
\* ran out, "eof" on the end of input, "terminal" once v > SHRINK_ELIAS_TERMINAL
RECURSIVE EliasBinary(_, _, _, _)
EliasBinary(i, buf, bit_count, v) ==
    IF bit_count = 0 THEN [r |-> "v", v |-> v, io |-> i, bit |-> buf]
    ELSE CHOOSE res \in
            {LET v2 == 2 * v + (IF g.r > 0 THEN 1 ELSE 0)
             IN  IF g.r < 0 THEN [r |-> "eof", v |-> 2 * v, io |-> g.io, bit |-> g.bit]
                 ELSE IF EliasIsTerminal(v2)
                 THEN [r |-> "terminal", v |-> v2, io |-> g.io, bit |-> g.bit]
                 ELSE EliasBinary(g.io, g.bit, bit_count - 1, v2) :
                g \in {shrink_bit_buffer_get_n_bits(i, buf, 1)}} : TRUE

\* the bits the decoder puts for v: v & 8 of v, v << 1, v << 2, v << 3
EliasNibble(v) == [x \in 1..SHRINK_ELIAS_BITS |-> Bit(v * 2 ^ (x - 1), SHRINK_ELIAS_BITS - 1)]

\* one iteration of shrink_elias_decode's outer loop
EliasDecodeStep ==
    /\ pc = "elias_decode"
    /\ \E u \in {EliasUnary(io, elias.buf, 0)} :
       \E b \in {EliasBinary(u.io, u.bit, u.bit_count, 1)} :
       \E p \in {PutBits(b.io, elias.obuf, EliasNibble(b.v - 1))} :
           IF u.r < 0 /\ u.bit_count > 0
           THEN Return(-537, u.io) /\ elias' = [elias EXCEPT !.buf = u.bit]
           ELSE IF u.r >= 0 /\ b.r = "eof"
           THEN Return(-549, b.io) /\ elias' = [elias EXCEPT !.buf = b.bit]
           ELSE IF u.r >= 0 /\ b.r = "terminal"
           THEN Return(0, b.io) /\ elias' = [elias EXCEPT !.buf = b.bit]
           ELSE \* the code was read, or the break at the end of input left v = 1
                IF p.r < 0
                THEN Return(-560, p.io) /\ elias' = [buf |-> b.bit, obuf |-> p.bit]
                ELSE /\ elias' = [buf |-> b.bit, obuf |-> p.bit]
                     /\ io' = p.io
                     /\ UNCHANGED <<pc, r1, r2>>
    /\ UNCHANGED <<call, mtf, lzp, rle, lzss, hist>>

----------------------------------------------------------------------------
(* Move-To-Front *)

SHRINK_MTF_ELEMENTS == 256

\* shrink_mtf_init: the identity permutation (model[i] at position i + 1)
shrink_mtf_init == [i \in 1..SHRINK_MTF_ELEMENTS |-> i - 1]

\* shrink_mtf_find: the first index holding ch, or a negative value
shrink_mtf_find(model, ch) ==
    IF \E i \in 0..(SHRINK_MTF_ELEMENTS - 1) : model[i + 1] = ch
    THEN CHOOSE i \in 0..(SHRINK_MTF_ELEMENTS - 1) :
            /\ model[i + 1] = ch
            /\ \A k \in 0..(i - 1) : model[k + 1] # ch
    ELSE -583

\* a promotion that forgets to shift the entries in front of index
shrink_mtf_update_swap(model, index) ==
    [i \in 1..SHRINK_MTF_ELEMENTS |->
        IF i = 1 THEN model[index + 1]
        ELSE IF i = index + 1 THEN model[1]
        ELSE model[i]]

\* a promotion that forgets model[0] = m behind the memmove
shrink_mtf_update_nofront(model, index) ==
    [i \in 1..SHRINK_MTF_ELEMENTS |->
        IF i = 1 THEN model[1]
        ELSE IF i <= index + 1 THEN model[i - 1]
        ELSE model[i]]

\* shrink_mtf_update: memmove(model + 1, model, index); model[0] = m
shrink_mtf_update(model, index) ==
    [i \in 1..SHRINK_MTF_ELEMENTS |->
        IF i = 1 THEN model[index + 1]
        ELSE IF i <= index + 1 THEN model[i - 1]
        ELSE model[i]]

\* a decoder promotion that moves one entry too few
MtfDecodePromote_short(model, ch) ==
    [i \in 1..SHRINK_MTF_ELEMENTS |->
        IF i = 1 THEN model[ch + 1]
        ELSE IF i <= ch THEN model[i - 1]
        ELSE model[i]]

\* shrink_mtf_decode: e = model[ch]; memmove(model + 1, model, ch); model[0] = e
MtfDecodePromote(model, ch) ==
    [i \in 1..SHRINK_MTF_ELEMENTS |->
        IF i = 1 THEN model[ch + 1]
        ELSE IF i <= ch + 1 THEN model[i - 1]
        ELSE model[i]]

\* one iteration of shrink_mtf_encode's loop
MtfEncodeStep ==
    /\ pc = "mtf_encode"
    /\ \E g \in {shrink_get(io)} :
       \E index \in {shrink_mtf_find(mtf, g.r)} :
           IF g.r < 0
           THEN /\ Return(0, g.io)
                /\ UNCHANGED <<mtf, hist>>
           ELSE IF index < 0
           THEN \* assert(index >= 0) in shrink_mtf_update
                /\ pc' = "abort"
                /\ io' = g.io
                /\ UNCHANGED <<mtf, hist, r1, r2>>
           ELSE LET p == shrink_put(index, g.io)
                IN  /\ mtf' = shrink_mtf_update(mtf, index)
                    /\ hist' = Append(hist, mtf')
                    /\ IF p.r < 0
                       THEN Return(-602, p.io)
                       ELSE io' = p.io /\ UNCHANGED <<pc, r1, r2>>
    /\ UNCHANGED <<call, lzp, rle, elias, lzss>>

\* one iteration of shrink_mtf_decode's loop
MtfDecodeStep ==
    /\ pc = "mtf_decode"
    /\ \E g \in {shrink_get(io)} :
           IF g.r < 0
           THEN /\ Return(0, g.io)
                /\ UNCHANGED mtf
           ELSE LET e == mtf[g.r + 1]
                    p == shrink_put(e, g.io)
                IN  /\ mtf' = MtfDecodePromote(mtf, g.r)
                    /\ IF p.r < 0
                       THEN Return(-617, p.io)
                       ELSE io' = p.io /\ UNCHANGED <<pc, r1, r2>>
    /\ UNCHANGED <<call, lzp, rle, elias, lzss, hist>>

----------------------------------------------------------------------------
(* LZP *)

\* #ifndef SHRINK_LZP_HASH_ORDER: a compile time macro, kept in build
SHRINK_LZP_HASH_ORDER == build.order

SHRINK_LZP_BYTE_LENGTH == 8

SHRINK_LZP_HASH_SIZE == 2 ^ SHRINK_LZP_HASH_ORDER

\* shrink_lzp_hash: (h << 4) ^ x, returned as a uint16_t
shrink_lzp_hash(h, x) == Xor(h * 16, x) % 65536

\* a prediction test that also takes any zero byte as predicted
LzpHit_zero(table, hash, ch) == ch = Rd(table, hash) \/ ch = 0

\* shrink_lzp_encode: ch == table[hash]
LzpHit(table, hash, ch) == ch = Rd(table, hash)

\* a decoder that also stores the bytes it predicted, one slot off
LzpDecodeTable_always(table, hash, predicted, ch) == Wr(table, (hash + 1) % 65536, ch)

\* shrink_lzp_decode: table[hash] = ch for a byte that was not predicted
LzpDecodeTable(table, hash, predicted, ch) ==
    IF predicted THEN table ELSE Wr(table, hash, ch)

\* the locals at the top of a block: hash carried over, buf as it was left
LzpBlock(hash, buf) == [hash |-> hash, i |-> 0, j |-> 1, ch |-> 0, mask |-> 0, buf |-> buf]

LzpLocals == LzpBlock(0, [k \in 0..SHRINK_LZP_BYTE_LENGTH |-> 0])

\* shrink_lzp_encode up to its loop: the table size check
LzpEncodeEntry ==
    /\ pc = "lzp_encode"
    /\ IF io.buffer.length < SHRINK_LZP_HASH_SIZE
       THEN Return(-642, io) /\ UNCHANGED lzp
       ELSE /\ lzp' = LzpLocals
            /\ pc' = "lzp_encode_byte"
            /\ UNCHANGED <<io, r1, r2>>
    /\ UNCHANGED <<call, mtf, rle, elias, lzss, hist>>

\* one iteration of the encoder's inner loop: one input byte
LzpEncodeByte ==
    /\ pc = "lzp_encode_byte"
    /\ \E g \in {shrink_get(io)} :
       LET ch == g.r
           table == io.buffer
       IN  IF ch < 0
           THEN /\ lzp' = [lzp EXCEPT !.ch = ch]
                /\ io' = g.io
                /\ pc' = "lzp_encode_emit"
                /\ UNCHANGED hist
           ELSE IF lzp.hash >= io.buffer.length
           THEN \* table[hash] lies behind the buffer: assert(hash < io->buffer_length)
                \* fails, or the access is out of bounds
                /\ pc' = "abort"
                /\ io' = g.io
                /\ UNCHANGED <<lzp, hist>>
           ELSE LET hit == LzpHit(table, lzp.hash, ch)
                    table2 == IF hit THEN table ELSE Wr(table, lzp.hash, ch)
                    l2 == [lzp EXCEPT
                             !.ch = ch,
                             !.mask = IF hit THEN @ + Shl1(lzp.i) ELSE @,
                             !.buf = IF hit THEN @ ELSE [@ EXCEPT ![lzp.j] = ch],
                             !.j = IF hit THEN @ ELSE @ + 1,
                             !.hash = shrink_lzp_hash(lzp.hash, ch),
                             !.i = @ + 1]
                IN  /\ lzp' = l2
                    /\ io' = [g.io EXCEPT !.buffer = table2]
                    /\ hist' = Append(hist, [table |-> table2, hash |-> l2.hash])
                    /\ pc' = IF l2.i < SHRINK_LZP_BYTE_LENGTH
                             THEN "lzp_encode_byte" ELSE "lzp_encode_emit"
    /\ UNCHANGED <<call, mtf, rle, elias, lzss, r1, r2>>

\* put buf[from .. j - 1]; the io state and whether every put succeeded
RECURSIVE LzpPutBuf(_, _, _, _)
LzpPutBuf(buf, k, j, i) ==
    IF k >= j THEN [ok |-> TRUE, io |-> i]
    ELSE CHOOSE res \in
            {IF p.r < 0 THEN [ok |-> FALSE, io |-> p.io]
             ELSE LzpPutBuf(buf, k + 1, j, p.io) :
                p \in {shrink_put(buf[k], i)}} : TRUE

\* the end of an encoder block: the mask byte, then the bytes not predicted
LzpEncodeEmit ==
    /\ pc = "lzp_encode_emit"
    /\ \E buf \in {[lzp.buf EXCEPT ![0] = lzp.mask]} :
       \E w \in {IF lzp.i > 0 THEN LzpPutBuf(buf, 0, lzp.j, io) ELSE [ok |-> TRUE, io |-> io]} :
       LET buf2 == IF lzp.i > 0 THEN buf ELSE lzp.buf
       IN  IF ~w.ok
           THEN Return(-668, w.io) /\ lzp' = [lzp EXCEPT !.buf = buf2]
           ELSE IF lzp.ch < 0
           THEN Return(0, w.io) /\ lzp' = [lzp EXCEPT !.buf = buf2]
           ELSE /\ lzp' = LzpBlock(lzp.hash, buf2)
                /\ io' = w.io
                /\ pc' = "lzp_encode_byte"
                /\ UNCHANGED <<r1, r2>>
    /\ UNCHANGED <<call, mtf, rle, elias, lzss, hist>>

\* a decoder that does not look at buffer_length
LzpDecodeEntry_nocheck ==
    /\ pc = "lzp_decode"
    /\ lzp' = [LzpLocals EXCEPT !.j = 0]
    /\ pc' = "lzp_decode_mask"
    /\ UNCHANGED <<io, r1, r2>>
    /\ UNCHANGED <<call, mtf, rle, elias, lzss, hist>>

\* shrink_lzp_decode up to its loop: the table size check
LzpDecodeEntry ==
    /\ pc = "lzp_decode"
    /\ IF io.buffer.length < SHRINK_LZP_HASH_SIZE
       THEN Return(-682, io) /\ UNCHANGED lzp
       ELSE /\ lzp' = [LzpLocals EXCEPT !.j = 0]
            /\ pc' = "lzp_decode_mask"
            /\ UNCHANGED <<io, r1, r2>>
    /\ UNCHANGED <<call, mtf, rle, elias, lzss, hist>>

\* the top of a decoder block: the mask byte
LzpDecodeMask ==
    /\ pc = "lzp_decode_mask"
    /\ \E g \in {shrink_get(io)} :
           IF g.r < 0
           THEN Return(0, g.io) /\ UNCHANGED lzp
           ELSE /\ lzp' = [lzp EXCEPT !.i = 0, !.j = 0, !.ch = 0, !.mask = g.r]
                /\ io' = g.io
                /\ pc' = "lzp_decode_byte"
                /\ UNCHANGED <<r1, r2>>
    /\ UNCHANGED <<call, mtf, rle, elias, lzss, hist>>

\* one iteration of the decoder's inner loop: one output byte
LzpDecodeByte ==
    /\ pc = "lzp_decode_byte"
    /\ \E predicted \in {Bit(lzp.mask, lzp.i)} :
       \E g \in {IF predicted THEN [r |-> Rd(io.buffer, lzp.hash), io |-> io]
                  ELSE shrink_get(io)} :
       LET table == io.buffer
           ch == g.r
       IN  IF ch < 0
           THEN /\ lzp' = [lzp EXCEPT !.ch = ch]
                /\ io' = g.io
                /\ pc' = "lzp_decode_emit"
           ELSE IF lzp.hash >= io.buffer.length
           THEN \* table[hash] lies behind the buffer: assert(hash < io->buffer_length)
                \* fails, or the access is out of bounds
                /\ pc' = "abort"
                /\ io' = g.io
                /\ UNCHANGED lzp
           ELSE LET table2 == LzpDecodeTable(table, lzp.hash, predicted, ch)
                    l2 == [lzp EXCEPT
                             !.ch = ch,
                             !.buf = [@ EXCEPT ![lzp.j] = ch],
                             !.j = @ + 1,
                             !.hash = shrink_lzp_hash(lzp.hash, ch),
                             !.i = @ + 1]
                IN  /\ lzp' = l2
                    /\ io' = [g.io EXCEPT !.buffer = table2]
                    /\ pc' = IF l2.i < SHRINK_LZP_BYTE_LENGTH
                             THEN "lzp_decode_byte" ELSE "lzp_decode_emit"
    /\ UNCHANGED <<call, mtf, rle, elias, lzss, r1, r2, hist>>

\* the end of a decoder block: the bytes decoded
LzpDecodeEmit ==
    /\ pc = "lzp_decode_emit"
    /\ \E w \in {IF lzp.j > 0 THEN LzpPutBuf(lzp.buf, 0, lzp.j, io)
                  ELSE [ok |-> TRUE, io |-> io]} :
           IF ~w.ok
           THEN Return(-710, w.io)
           ELSE /\ io' = w.io
                /\ pc' = "lzp_decode_mask"
                /\ UNCHANGED <<r1, r2>>
    /\ UNCHANGED <<call, locals, hist>>

----------------------------------------------------------------------------
(* shrink_test: encode, then decode what was written *)

\* the locals of every CODEC as its function declares them
InitLocals ==
    /\ mtf = shrink_mtf_init
    /\ lzp = LzpLocals
    /\ rle = RleLocals
    /\ elias = EliasEncodeLocals
    /\ lzss = LzssEncodeLocals

ResetLocals ==
    /\ mtf' = shrink_mtf_init
    /\ lzp' = LzpLocals
    /\ rle' = RleLocals
    /\ elias' = EliasDecodeLocals
    /\ lzss' = LzssDecodeLocals

\* shrink_buffer's epilogue after the encode call; shrink_test then clears the
\* working buffer (memset) and calls shrink_buffer to decode
TestDecode ==
    /\ pc = "ret" /\ encode = 1 /\ r1 = 0
    /\ compressed' = io.out.b
    /\ complen' = io.wrote
    /\ fresh' = TRUE
    /\ encode' = 0
    /\ io' = shrink_buffer(buffer0, io.out.b, SHRINK_TEST_BUFFER_LENGTH)
    /\ pc' = "shrink"
    /\ ResetLocals
    /\ hist' = hist \o io.log
    /\ UNCHANGED <<build, codec, msg, buffer0, r1, r2>>

\* a caller of shrink_buffer that decodes with the working buffer as the encode
\* call left it
ReuseDecode ==
    /\ pc = "ret" /\ encode = 1 /\ r1 = 0
    /\ compressed' = io.out.b
    /\ complen' = io.wrote
    /\ fresh' = FALSE
    /\ encode' = 0
    /\ io' = shrink_buffer(io.buffer, io.out.b, SHRINK_TEST_BUFFER_LENGTH)
    /\ pc' = "shrink"
    /\ ResetLocals
    /\ hist' = hist \o io.log
    /\ UNCHANGED <<build, codec, msg, buffer0, r1, r2>>

\* the decode call returned: shrink_test compares
TestDone ==
    /\ pc = "ret" /\ encode = 0
    /\ pc' = "done"
    /\ UNCHANGED <<call, locals, io, r1, r2, hist>>

\* a caller of shrink_buffer that decodes into an output buffer of n bytes
CapDecode ==
    /\ pc = "ret" /\ encode = 1 /\ r1 = 0
    /\ \E n \in 0..MaxCap : io' = shrink_buffer(buffer0, io.out.b, n)
    /\ compressed' = io.out.b
    /\ complen' = io.wrote
    /\ fresh' = TRUE
    /\ encode' = 0
    /\ pc' = "shrink"
    /\ ResetLocals
    /\ hist' = hist \o io.log
    /\ UNCHANGED <<build, codec, msg, buffer0, r1, r2>>

\* shrink_buffer's epilogue: const int r = shrink(...); *outlength = r == 0 ?
\* io.wrote : 0; return r; defined once the running call has returned
outlength ==
    LET r == IF encode = 1 THEN r1 ELSE r2
    IN  IF r = 0 THEN io.wrote ELSE 0

\* decomplen and decompressed of shrink_test, once the decode call has returned
decomplen == IF r2 = 0 THEN io.wrote ELSE 0
decompressed == io.out.b

\* shrink_test's result
shrink_test ==
    IF r1 < 0 THEN r1
    ELSE IF r2 < 0 THEN r2
    ELSE IF Len(msg) # decomplen THEN -770
    ELSE IF msg # decompressed THEN -772
    ELSE 0

\* the first call of shrink_test: encode msg with the working buffer b
InitCall(c, m, b) ==
    /\ codec = c
    /\ encode = 1
    /\ pc = "shrink"
    /\ msg = m
    /\ buffer0 = b
    /\ fresh = TRUE
    /\ io = shrink_buffer(b, m, SHRINK_TEST_BUFFER_LENGTH)
    /\ r1 = "none" /\ r2 = "none"
    /\ compressed = <<>> /\ complen = 0
    /\ hist = <<>>
    /\ InitLocals

----------------------------------------------------------------------------
(* Specifications *)

NoBuffer == Buffer(0, 0)

InitMtf == build = TestBuild /\ \E m \in Words(MtfBytes, MaxMtfLen) : InitCall("MTF", m, NoBuffer)

NextMtf == shrink \/ MtfEncodeStep \/ MtfDecodeStep \/ TestDecode \/ TestDone

SpecMtf == InitMtf /\ [][NextMtf]_vars

\* pat repeated up to n bytes
Cycle(pat, n) == [k \in 1..n |-> pat[((k - 1) % Len(pat)) + 1]]

\* one run, single bytes, pairs, runs of three
RlePatterns == {<<0>>, <<0, 1>>, <<0, 0, 1, 1>>, <<0, 0, 0, 1>>}

\* lengths around one and two of the longest run command (SHRINK_RL +
\* SHRINK_ROVER + 1 bytes) and of the longest literal block (SHRINK_RL - 1)
RleLongLens ==
    ((SHRINK_RL - 2)..(SHRINK_RL + SHRINK_ROVER + 3))
        \cup ((2 * SHRINK_RL + 2 * SHRINK_ROVER)..(2 * SHRINK_RL + 2 * SHRINK_ROVER + 4))

RleInputs ==
    Words(RleBytes, MaxRleLen)
        \cup {pre \o Cycle(pat, n) \o post :
                pre \in Words(RleBytes, MaxRlePre), pat \in RlePatterns,
                n \in RleLongLens, post \in Words(RleBytes, 1)}

InitRle == build = TestBuild /\ \E m \in RleInputs : InitCall("RLE", m, NoBuffer)

NextRle == shrink \/ RleEncodeStep \/ RleEncodeEnd \/ RleDecodeStep \/ TestDecode \/ TestDone

SpecRle == InitRle /\ [][NextRle]_vars

\* repeated bytes, short periods, and bytes that never repeat
LzssPatterns == {<<0>>, <<0, 1>>, <<0, 0, 1>>, <<1, 0, 1, 1, 0>>, [k \in 1..251 |-> k + 1]}

\* lengths around one and two dictionary sizes: the window slides once, twice
LzssLongLens ==
    ((SHRINK_N - 2)..(SHRINK_N + 2)) \cup ((2 * SHRINK_N - 1)..(2 * SHRINK_N + 1))

LzssInputs ==
    Words(LzssBytes, MaxLzssLen)
        \cup {pre \o Cycle(pat, n) \o post :
                pre \in Words(LzssBytes, MaxLzssPre), pat \in LzssPatterns,
                n \in LzssLongLens, post \in Words(LzssBytes, 1)}

InitLzss ==
    /\ build = TestBuild
    /\ \E m \in LzssInputs, f \in Fills : InitCall("LZSS", m, Window(2 * SHRINK_N, f))

NextLzss ==
    \/ shrink
    \/ LzssEncodeEntry \/ LzssEncodeStep \/ LzssEncodeFlush
    \/ LzssDecodeEntry \/ LzssDecodeStep
    \/ TestDecode \/ TestDone

SpecLzss == InitLzss /\ [][NextLzss]_vars

InitElias == build = TestBuild /\ \E m \in Words(EliasBytes, MaxEliasLen) : InitCall("ELIAS", m, NoBuffer)

NextElias ==
    shrink \/ EliasEncodeStep \/ EliasEncodeFlush \/ EliasDecodeStep \/ TestDecode \/ TestDone

SpecElias == InitElias /\ [][NextElias]_vars

\* shrink_test with CODEC_ELIAS, or a decode call of CODEC_ELIAS on any bytes
\* into an output buffer of MaxCap bytes
InitEliasDec ==
    /\ build = TestBuild
    /\ \/ \E m \in Words(EliasBytes, MaxEliasLen) : InitCall("ELIAS", m, NoBuffer)
       \/ \E m \in Words(EliasDecBytes, MaxEliasDecLen) :
            /\ codec = "ELIAS"
            /\ encode = 0
            /\ pc = "shrink"
            /\ msg = m
            /\ buffer0 = NoBuffer
            /\ fresh = TRUE
            /\ io = shrink_buffer(NoBuffer, m, MaxCap)
            /\ r1 = "none" /\ r2 = "none"
            /\ compressed = <<>> /\ complen = 0
            /\ hist = <<>>
            /\ mtf = shrink_mtf_init
            /\ lzp = LzpLocals
            /\ rle = RleLocals
            /\ elias = EliasDecodeLocals
            /\ lzss = LzssDecodeLocals

SpecEliasDec == InitEliasDec /\ [][NextElias]_vars

InitLzp ==
    /\ build = TestBuild
    /\ \E m \in Words(LzpBytes, MaxLzpLen), f \in Fills :
        InitCall("LZP", m, Buffer(SHRINK_LZP_HASH_SIZE, f))

NextLzp ==
    \/ shrink
    \/ LzpEncodeEntry \/ LzpEncodeByte \/ LzpEncodeEmit
    \/ LzpDecodeEntry \/ LzpDecodeMask \/ LzpDecodeByte \/ LzpDecodeEmit
    \/ TestDecode \/ TestDone

SpecLzp == InitLzp /\ [][NextLzp]_vars

\* shrink_test with CODEC_LZP in builds with -DSHRINK_LZP_HASH_ORDER=..., the
\* working buffer of the least length the CODEC takes
InitLzpOrder ==
    /\ build \in {[TestBuild EXCEPT !.order = o] : o \in LzpOrders}
    /\ \E m \in Words(LzpOrderBytes, MaxLzpOrderLen), f \in Fills :
        InitCall("LZP", m, Buffer(SHRINK_LZP_HASH_SIZE, f))

SpecLzpOrder == InitLzpOrder /\ [][NextLzp]_vars

CODECS == {"RLE", "LZSS", "ELIAS", "MTF", "LZP"}

\* the working buffer a caller hands to CODEC c, filled with f
WorkBuffer(c, f) ==
    CASE c = "LZSS" -> Window(2 * SHRINK_N, f)
      [] c = "LZP" -> Buffer(SHRINK_LZP_HASH_SIZE, f)
      [] OTHER -> NoBuffer

\* the steps of the five CODECs
Codec ==
    \/ shrink
    \/ RleEncodeStep \/ RleEncodeEnd \/ RleDecodeStep
    \/ LzssEncodeEntry \/ LzssEncodeStep \/ LzssEncodeFlush
    \/ LzssDecodeEntry \/ LzssDecodeStep
    \/ EliasEncodeStep \/ EliasEncodeFlush \/ EliasDecodeStep
    \/ MtfEncodeStep \/ MtfDecodeStep
    \/ LzpEncodeEntry \/ LzpEncodeByte \/ LzpEncodeEmit
    \/ LzpDecodeEntry \/ LzpDecodeMask \/ LzpDecodeByte \/ LzpDecodeEmit

\* every CODEC, an encode call and then a decode call on its output, the
\* working buffer either cleared in between or left as the encode call left it
Init ==
    /\ build = TestBuild
    /\ \E c \in CODECS, m \in Words(Bytes, MaxLen), f \in Fills :
        InitCall(c, m, WorkBuffer(c, f))

Next == Codec \/ TestDecode \/ ReuseDecode \/ TestDone

Spec == Init /\ [][Next]_vars

\* shrink_buffer with output buffers of 0 to MaxCap bytes: an encode call, and a
\* decode call on what an encode call that returned 0 wrote
InitCap ==
    /\ build = TestBuild
    /\ \E c \in CODECS, m \in Words(Bytes, MaxCapLen), n \in 0..MaxCap :
        /\ codec = c
        /\ encode = 1
        /\ pc = "shrink"
        /\ msg = m
        /\ buffer0 = WorkBuffer(c, 0)
        /\ fresh = TRUE
        /\ io = shrink_buffer(WorkBuffer(c, 0), m, n)
        /\ r1 = "none" /\ r2 = "none"
        /\ compressed = <<>> /\ complen = 0
        /\ hist = <<>>
        /\ InitLocals

NextCap == Codec \/ CapDecode \/ TestDone

SpecCap == InitCap /\ [][NextCap]_vars

\* one decode call of RLE on any bytes
InitRleDec ==
    /\ build = TestBuild
    /\ \E m \in Words(RleDecBytes, MaxRleDecLen) :
        /\ codec = "RLE"
        /\ encode = 0
        /\ pc = "shrink"
        /\ msg = m
        /\ buffer0 = NoBuffer
        /\ fresh = TRUE
        /\ io = shrink_buffer(NoBuffer, m, SHRINK_TEST_BUFFER_LENGTH)
        /\ r1 = "none" /\ r2 = "none"
        /\ compressed = <<>> /\ complen = 0
        /\ hist = <<>>
        /\ mtf = shrink_mtf_init
        /\ lzp = LzpLocals
        /\ rle = RleLocals
        /\ elias = EliasDecodeLocals
        /\ lzss = LzssDecodeLocals

NextRleDec == shrink \/ RleDecodeStep

SpecRleDec == InitRleDec /\ [][NextRleDec]_vars

\* a decode call of CODEC_LZSS on any bytes, into an output buffer that holds
\* them all or one of MaxCap bytes
InitLzssDec ==
    /\ build = TestBuild
    /\ \E m \in Words(LzssDecBytes, MaxLzssDecLen), f \in Fills,
          n \in {MaxCap, SHRINK_TEST_BUFFER_LENGTH} :
        /\ codec = "LZSS"
        /\ encode = 0
        /\ pc = "shrink"
        /\ msg = m
        /\ buffer0 = Window(2 * SHRINK_N, f)
        /\ fresh = TRUE
        /\ io = shrink_buffer(Window(2 * SHRINK_N, f), m, n)
        /\ r1 = "none" /\ r2 = "none"
        /\ compressed = <<>> /\ complen = 0
        /\ hist = <<>>
        /\ mtf = shrink_mtf_init
        /\ lzp = LzpLocals
        /\ rle = RleLocals
        /\ elias = EliasDecodeLocals
        /\ lzss = LzssDecodeLocals

NextLzssDec == shrink \/ LzssDecodeEntry \/ LzssDecodeStep

SpecLzssDec == InitLzssDec /\ [][NextLzssDec]_vars

\* the builds that pass the BUILD_BUG_ONs of shrink_tests: 6 <= SHRINK_EI <= 15,
\* SHRINK_EJ <= SHRINK_EI, SHRINK_EI + SHRINK_EJ <= 16, SHRINK_P > 1
Builds ==
    {b \in [ei : 6..MaxEI, ej : 0..MaxEJ, p : 2..MaxP, order : {TestBuild.order}] :
        b.ei <= 15 /\ b.ej <= b.ei /\ b.ei + b.ej <= 16}

\* shrink_test with CODEC_LZSS in each of those builds
InitBuild ==
    /\ build \in Builds
    /\ \E m \in Words(Bytes, MaxBuildLen)
                    \cup {Cycle(pat, n) : pat \in BuildPatterns, n \in 4..MaxBuildRun},
          f \in Fills :
        InitCall("LZSS", m, Window(2 * SHRINK_N, f))

SpecBuild == InitBuild /\ [][NextLzss]_vars

\* the least buffer_length CODEC c works with
BufferNeed(c) ==
    CASE c = "LZSS" -> 2 * SHRINK_N
      [] c = "LZP" -> SHRINK_LZP_HASH_SIZE
      [] OTHER -> 0

\* a working buffer of len bytes for CODEC c
SizedBuffer(c, len, f) == IF c = "LZSS" THEN Window(len, f) ELSE Buffer(len, f)

\* one call of shrink_buffer for LZSS or LZP, either direction, with a working
\* buffer of no bytes, of one byte less than the CODEC needs, or of just enough
InitShort ==
    /\ build = TestBuild
    /\ \E c \in {"LZSS", "LZP"}, e \in {0, 1}, m \in Words(Bytes, MaxLen), f \in Fills :
       \E len \in {0, BufferNeed(c) - 1, BufferNeed(c)} :
        /\ codec = c
        /\ encode = e
        /\ pc = "shrink"
        /\ msg = m
        /\ buffer0 = SizedBuffer(c, len, f)
        /\ fresh = TRUE
        /\ io = shrink_buffer(SizedBuffer(c, len, f), m, SHRINK_TEST_BUFFER_LENGTH)
        /\ r1 = "none" /\ r2 = "none"
        /\ compressed = <<>> /\ complen = 0
        /\ hist = <<>>
        /\ mtf = shrink_mtf_init
        /\ lzp = LzpLocals
        /\ rle = RleLocals
        /\ elias = EliasEncodeLocals
        /\ lzss = IF e = 1 THEN LzssEncodeLocals ELSE LzssDecodeLocals

NextShort ==
    \/ shrink
    \/ LzssEncodeEntry \/ LzssEncodeStep \/ LzssEncodeFlush
    \/ LzssDecodeEntry \/ LzssDecodeStep
    \/ LzpEncodeEntry \/ LzpEncodeByte \/ LzpEncodeEmit
    \/ LzpDecodeEntry \/ LzpDecodeMask \/ LzpDecodeByte \/ LzpDecodeEmit

SpecShort == InitShort /\ [][NextShort]_vars

\* one call of shrink() by a caller whose put always succeeds: any CODEC, either
\* direction, any input
InitSink ==
    /\ build = TestBuild
    /\ \E c \in CODECS, e \in {0, 1}, m \in Words(SinkBytes, MaxSinkLen) :
        /\ codec = c
        /\ encode = e
        /\ pc = "shrink"
        /\ msg = m
        /\ buffer0 = WorkBuffer(c, 0)
        /\ fresh = TRUE
        /\ io = [shrink_buffer(WorkBuffer(c, 0), m, 0) EXCEPT !.put = "sink_put"]
        /\ r1 = "none" /\ r2 = "none"
        /\ compressed = <<>> /\ complen = 0
        /\ hist = <<>>
        /\ mtf = shrink_mtf_init
        /\ lzp = LzpLocals
        /\ rle = RleLocals
        /\ elias = IF e = 1 THEN EliasEncodeLocals ELSE EliasDecodeLocals
        /\ lzss = IF e = 1 THEN LzssEncodeLocals ELSE LzssDecodeLocals

NextSink == Codec

\* a call that can take a step takes it
SpecSink == InitSink /\ [][NextSink]_vars /\ WF_vars(NextSink)

----------------------------------------------------------------------------
(* The bits a call has put through shrink_bit_buffer_put_bit so far: the bytes
   written, then the bits of the byte that is being filled *)

\* the number of bits taken through shrink_bit_buffer_get_n_bits: the bytes
\* read less the bits of the last one that bit->mask has yet to reach
InBitCount(i, bit) ==
    8 * i.in.used - (CHOOSE k \in 0..8 : IF bit.mask = 0 THEN k = 0 ELSE 2 ^ k = 2 * bit.mask)

\* the p-th bit of the input, counted from 1, bit 7 of a byte first
InBitAt(i, p) == (i.in.b[(p - 1) \div 8 + 1] \div 2 ^ (7 - ((p - 1) % 8))) % 2

\* the value of the n bits of the input from the p-th on, the first the highest
InBitsValue(i, p, n) ==
    LET v[k \in 0..n] == IF k = 0 THEN 0 ELSE 2 * v[k - 1] + InBitAt(i, p + k - 1)
    IN  v[n]

\* the number of bits put: bit->mask is 128 >> (bits in the byte being filled)
OutBitCount(i, bit) ==
    8 * Len(i.out.b) + (CHOOSE k \in 0..8 : IF bit.mask = 0 THEN k = 0 ELSE bit.mask * 2 ^ k = 128)

\* the p-th bit put, counted from 1
OutBitAt(i, bit, p) ==
    LET byte == IF (p - 1) \div 8 < Len(i.out.b) THEN i.out.b[(p - 1) \div 8 + 1] ELSE bit.buffer
    IN  (byte \div 2 ^ (7 - ((p - 1) % 8))) % 2

\* the value of the n bits put from the p-th on, the first the highest
RECURSIVE OutBitsValue(_, _, _, _)
OutBitsValue(i, bit, p, n) ==
    IF n = 0 THEN 0
    ELSE 2 ^ (n - 1) * OutBitAt(i, bit, p) + OutBitsValue(i, bit, p + 1, n - 1)

----------------------------------------------------------------------------
(* The RLE format as the readme draws it: a command byte 128-255 is followed by
   literal data, a command byte 0-127 by the byte to repeat *)

\* the bytes that the commands of bytes from pos on stand for; <<-1>> behind a
\* command whose data bytes are missing
RECURSIVE RleReadme(_, _)
RleReadme(bytes, pos) ==
    IF pos > Len(bytes) THEN <<>>
    ELSE IF bytes[pos] >= 128
    THEN IF pos + (bytes[pos] - SHRINK_RL) > Len(bytes) THEN <<-1>>
         ELSE SubSeq(bytes, pos + 1, pos + (bytes[pos] - SHRINK_RL))
                \o RleReadme(bytes, pos + 1 + (bytes[pos] - SHRINK_RL))
    ELSE IF pos + 1 > Len(bytes) THEN <<-1>>
         ELSE [k \in 1..(bytes[pos] + 1 + SHRINK_ROVER) |-> bytes[pos + 1]]
                \o RleReadme(bytes, pos + 2)

----------------------------------------------------------------------------
(* Claims *)

\* C5: Move-To-Front round trip: once the encode call and the decode call on
\* its output have both returned, both returned 0, the decoder wrote exactly
\* the input, and the encoder's output is as long as the input.
C5_MtfRoundTrip ==
    (codec = "MTF" /\ pc = "done") =>
        /\ r1 = 0 /\ r2 = 0
        /\ decompressed = msg
        /\ Len(compressed) = Len(msg)
        /\ complen = Len(msg)

\* a full-length input with a repeated byte whose ranks differ from the bytes
C5_Witness ==
    /\ codec = "MTF" /\ pc = "done"
    /\ Len(msg) = MaxMtfLen
    /\ msg[1] = 255 /\ msg[2] = 1 /\ msg[3] = 255
    /\ compressed # msg
    /\ decompressed = msg

\* C9: MTF model symmetry: after the decoder has decoded k bytes its table is
\* the table the encoder had after encoding k bytes (hist[k]; the initial
\* table for k = 0).
C9_MtfModelSymmetry ==
    (codec = "MTF" /\ encode = 0) =>
        mtf = (IF io.wrote = 0 THEN shrink_mtf_init ELSE hist[io.wrote])

\* the decoder has decoded a full-length input and its table has moved
C9_Witness ==
    /\ codec = "MTF" /\ encode = 0
    /\ io.wrote = MaxMtfLen
    /\ Len(hist) = MaxMtfLen
    /\ mtf # shrink_mtf_init
    /\ mtf[1] # 255 /\ mtf[2] = 255

\* C1: LZSS round trip: with the working buffer holding the same contents at
\* the start of both calls, both calls return 0 and the decoder writes exactly
\* the input.
C1_LzssRoundTrip ==
    (codec = "LZSS" /\ pc = "done" /\ fresh) =>
        /\ r1 = 0 /\ r2 = 0
        /\ decompressed = msg
        /\ decomplen = Len(msg)

\* an input of one repeated byte longer than two dictionaries: the window has
\* slid, every match overlaps the cursor, and the output is references
C1_Witness ==
    /\ codec = "LZSS" /\ pc = "done" /\ fresh
    /\ Len(msg) > 2 * SHRINK_N
    /\ \A k \in 1..Len(msg) : msg[k] = 0
    /\ buffer0 = Window(2 * SHRINK_N, 1)
    /\ Len(compressed) < Len(msg) \div 2
    /\ decompressed = msg

\* C2: RLE round trip: both calls return 0 and the decoder writes exactly the
\* input, whatever its runs and literal stretches.
C2_RleRoundTrip ==
    (codec = "RLE" /\ pc = "done") =>
        /\ r1 = 0 /\ r2 = 0
        /\ decompressed = msg
        /\ decomplen = Len(msg)

\* a run longer than two of the longest run command: two commands SHRINK_RL,
\* then the rest of the run
C2_Witness ==
    /\ codec = "RLE" /\ pc = "done"
    /\ Len(msg) > 2 * (SHRINK_RL + SHRINK_ROVER + 1)
    /\ \A k \in 1..Len(msg) : msg[k] = 0
    /\ Len(compressed) >= 4
    /\ compressed[1] = SHRINK_RL /\ compressed[2] = 0
    /\ compressed[3] = SHRINK_RL /\ compressed[4] = 0
    /\ decompressed = msg

\* C3: Elias-Gamma round trip: both calls return 0 and the decoder writes
\* exactly the input, both nibbles of every byte in order.
C3_EliasRoundTrip ==
    (codec = "ELIAS" /\ pc = "done") =>
        /\ r1 = 0 /\ r2 = 0
        /\ decompressed = msg
        /\ decomplen = Len(msg)

\* a full-length input with the longest and shorter codes, expanded by the
\* encoder
C3_Witness ==
    /\ codec = "ELIAS" /\ pc = "done"
    /\ Len(msg) = MaxEliasLen
    /\ msg[1] = 255 /\ msg[2] = 137
    /\ Len(compressed) > Len(msg)
    /\ decompressed = msg

\* C4: LZP round trip: with the hash table holding the same contents at the
\* start of both calls, both calls return 0 and the decoder writes exactly the
\* input, whatever its length.
C4_LzpRoundTrip ==
    (codec = "LZP" /\ pc = "done" /\ fresh) =>
        /\ r1 = 0 /\ r2 = 0
        /\ decompressed = msg
        /\ decomplen = Len(msg)

\* an input one byte longer than a block, every byte of it predicted: the
\* final block is a lone mask byte
C4_Witness ==
    /\ codec = "LZP" /\ pc = "done" /\ fresh
    /\ Len(msg) = SHRINK_LZP_BYTE_LENGTH + 1
    /\ compressed = <<255, 1>>
    /\ decompressed = msg

\* the bytes the LZP decoder has decoded so far
LzpDecoded ==
    IF pc \in {"lzp_decode_byte", "lzp_decode_emit"} THEN io.wrote + lzp.j ELSE io.wrote

\* C10: LZP table synchronization: started from identical tables, the decoder's
\* table and rolling hash after its first k bytes are the encoder's table and
\* rolling hash after it consumed the first k input bytes (hist[k]).
C10_LzpTableSync ==
    (codec = "LZP" /\ encode = 0 /\ fresh /\ pc # "done") =>
        LET k == LzpDecoded
        IN  /\ k <= Len(hist)
            /\ io.buffer = (IF k = 0 THEN buffer0 ELSE hist[k].table)
            /\ lzp.hash = (IF k = 0 THEN 0 ELSE hist[k].hash)

\* the decoder is past a full block and inside the next one, with a table
\* that has learnt bytes and a hash that has rolled
C10_Witness ==
    /\ codec = "LZP" /\ encode = 0 /\ fresh
    /\ pc = "lzp_decode_emit"
    /\ LzpDecoded = SHRINK_LZP_BYTE_LENGTH + 1
    /\ io.buffer # buffer0
    /\ lzp.hash = 4369
    /\ lzp.mask # 0

\* C6: empty input: for each CODEC, encoding the zero-length input returns 0,
\* and decoding what the encoder wrote returns 0 and writes zero bytes.
C6_EmptyInput ==
    (pc = "done" /\ msg = <<>>) =>
        /\ r1 = 0 /\ r2 = 0
        /\ decompressed = <<>>
        /\ io.wrote = 0
        /\ decomplen = 0

\* the empty input through Elias-Gamma, whose encoder writes the terminal code
C6_Witness ==
    /\ pc = "done" /\ msg = <<>>
    /\ codec = "ELIAS"
    /\ compressed = <<241, 0>>
    /\ io.read = 2
    /\ r2 = 0

\* C7: termination on input exhaustion: a call of shrink() whose put always
\* succeeds returns, whatever the CODEC, the direction and the input.
C7_Terminates == <>(pc = "ret")

\* C8: independence of invocations: a decode call handed the working buffer as
\* the encode call left it returns 0 and reproduces the input.
C8_Independence ==
    (pc = "done" /\ ~fresh) =>
        /\ r2 = 0
        /\ decompressed = msg
        /\ decomplen = Len(msg)

\* C11: LZSS bit budget: an iteration of the encoder's main loop that puts its
\* unit puts either one literal (the bit 1 and the byte at the cursor) and moves
\* the cursor by 1, or one reference (the bit 0, a position and a length - P)
\* to y bytes of the dictionary that equal the y bytes at the cursor, with
\* P < y <= F, and moves the cursor by y; it puts the literal whenever the best
\* match its search found is no longer than P.
C11_Unit ==
    LET before == OutBitCount(io, lzss.bit)
        after == OutBitCount(io', lzss'.bit)
        flag == OutBitAt(io', lzss'.bit, before + 1)
        byte == OutBitsValue(io', lzss'.bit, before + 2, 8)
        position == OutBitsValue(io', lzss'.bit, before + 2, SHRINK_EI)
        y == OutBitsValue(io', lzss'.bit, before + 2 + SHRINK_EI, SHRINK_EJ) + SHRINK_P
        moved == (lzss'.r + 2 * SHRINK_N - lzss.r) % SHRINK_N
        found == LzssSearch(io.buffer, lzss.s, lzss.r, lzss.bufferend)
    IN  (pc = "lzss_encode_loop" /\ pc' \in {"lzss_encode_loop", "lzss_encode_flush"}) =>
            /\ \/ /\ flag = 1
                  /\ after = before + 9
                  /\ byte = At(io.buffer, lzss.r)
                  /\ moved = 1
               \/ /\ flag = 0
                  /\ after = before + 1 + SHRINK_EI + SHRINK_EJ
                  /\ SHRINK_P < y /\ y <= SHRINK_F
                  /\ moved = y
                  /\ \E x \in lzss.s..(lzss.r - 1) :
                        /\ x % SHRINK_N = position
                        /\ \A q \in 0..(y - 1) : At(io.buffer, x + q) = At(io.buffer, lzss.r + q)
            /\ found.y <= SHRINK_P => flag = 1

C11_LzssBitBudget == [][C11_Unit]_vars

\* the encoder has refilled the window and has just put a reference to a match
\* of the longest length, F
C11_Witness ==
    /\ codec = "LZSS" /\ encode = 1 /\ pc = "lzss_encode_loop"
    /\ io.read > SHRINK_N + SHRINK_F
    /\ lzss.y = SHRINK_F
    /\ OutBitCount(io, lzss.bit) >= 1 + SHRINK_EI + SHRINK_EJ

\* C12: RLE format disambiguation: every command byte rle_write_buf has put is
\* greater than RL and every command byte rle_write_run has put is at most RL;
\* and a decoder iteration on a command byte c that the encoder put copies
\* c - RL bytes from the input when c > RL and writes c + 1 + ROVER copies of
\* the next byte otherwise, c > RL exactly for the commands of rle_write_buf.
C12_Written ==
    (codec = "RLE" /\ encode = 1) =>
        \A k \in 1..Len(io.log) :
            LET c == io.out.b[io.log[k].at]
            IN  IF io.log[k].kind = "literal" THEN c > SHRINK_RL ELSE c <= SHRINK_RL

C12_Decoded ==
    (codec = "RLE" /\ encode = 0 /\ pc = "rle_decode" /\ pc' = "rle_decode") =>
        LET c == compressed[io.in.used + 1]
            got == io'.in.used - io.in.used
            put == Len(io'.out.b) - Len(io.out.b)
        IN  /\ \E k \in 1..Len(hist) :
                    /\ hist[k].at = io.in.used + 1
                    /\ (hist[k].kind = "literal") <=> (c > SHRINK_RL)
            /\ IF c > SHRINK_RL
               THEN /\ got = 1 + (c - SHRINK_RL)
                    /\ put = c - SHRINK_RL
                    /\ \A q \in 1..put :
                            io'.out.b[Len(io.out.b) + q] = compressed[io.in.used + 1 + q]
               ELSE /\ got = 2
                    /\ put = c + 1 + SHRINK_ROVER
                    /\ \A q \in 1..put :
                            io'.out.b[Len(io.out.b) + q] = compressed[io.in.used + 2]

C13_ReadmeRanges ==
    /\ (codec = "RLE" /\ encode = 1) =>
            \A k \in 1..Len(io.log) :
                LET c == io.out.b[io.log[k].at]
                IN  IF io.log[k].kind = "run" THEN c \in 0..127 ELSE c \in 128..255
    /\ (codec = "RLE" /\ encode = 0 /\ pc = "rle_decode") =>
            io.out.b = RleReadme(SubSeq(compressed, 1, io.in.used), 1)

\* C14: shrink_buffer's result: a call that has returned has returned 0 or a
\* negative value; if 0, no put was refused and *outlength is the number of
\* bytes in out; if shrink_buffer_put refused a byte (the output would exceed
\* the capacity) the value is negative and *outlength is 0; and out never holds
\* more than the capacity.
C14_BufferResult ==
    /\ io.put = "shrink_buffer_put" => Len(io.out.b) <= io.out.length
    /\ (io.put = "shrink_buffer_put" /\ pc \in {"ret", "done"}) =>
            LET r == IF encode = 1 THEN r1 ELSE r2
            IN  /\ r <= 0
                /\ r = 0 => ~io.out.refused /\ outlength = Len(io.out.b)
                /\ io.out.refused => r < 0
                /\ r < 0 => outlength = 0

\* a decode call into a buffer one byte too short has returned a negative
\* value with the buffer full
C14_Witness ==
    /\ pc = "done" /\ r1 = 0 /\ r2 < 0
    /\ io.out.refused
    /\ Len(io.out.b) = io.out.length
    /\ io.out.length = Len(msg) - 1
    /\ outlength = 0

\* C15: too small working buffer: an LZSS call with less than 2N bytes, or an
\* LZP call with less than 2^HashOrder bytes, either direction, goes from its
\* entry to its return only; it has returned a negative value, has read and
\* written nothing, and the working buffer is as the caller handed it over.
C15_ShortBuffer ==
    (codec \in {"LZSS", "LZP"} /\ io.buffer.length < BufferNeed(codec)) =>
        /\ pc \in {"shrink", "lzss_encode", "lzss_decode", "lzp_encode", "lzp_decode", "ret"}
        /\ io.read = 0 /\ io.wrote = 0
        /\ io.in.used = 0 /\ io.out.b = <<>>
        /\ io.buffer = buffer0
        /\ pc = "ret" => (IF encode = 1 THEN r1 ELSE r2) < 0

\* an LZSS decode call with a buffer one byte short and an input to decode has
\* returned
C15_Witness ==
    /\ codec = "LZSS" /\ encode = 0 /\ pc = "ret"
    /\ io.buffer.length = 2 * SHRINK_N - 1
    /\ Len(msg) = MaxLen
    /\ r2 < 0

\* whether bytes, read as commands from pos on (c > RL: c - RL data bytes
\* follow; otherwise one data byte follows), ends behind a whole command
RECURSIVE C16_Whole(_, _)
C16_Whole(bytes, pos) ==
    IF pos > Len(bytes) THEN TRUE
    ELSE IF bytes[pos] > SHRINK_RL
    THEN /\ pos + (bytes[pos] - SHRINK_RL) <= Len(bytes)
         /\ C16_Whole(bytes, pos + 1 + (bytes[pos] - SHRINK_RL))
    ELSE /\ pos + 1 <= Len(bytes)
         /\ C16_Whole(bytes, pos + 2)

\* C16: RLE truncated payload: the RLE decoder returns 0 if its input ends
\* behind a whole command, and a negative value if it ends behind a run command
\* byte or within the c - RL data bytes of a literal command.
C16_RleTruncated ==
    (codec = "RLE" /\ encode = 0 /\ pc = "ret" /\ ~io.out.refused) =>
        IF C16_Whole(io.in.b, 1) THEN r2 = 0 ELSE r2 < 0

\* the input is a literal command of two bytes and one data byte: the byte was
\* copied and the call returned a negative value
C16_Witness ==
    /\ codec = "RLE" /\ encode = 0 /\ pc = "ret"
    /\ io.in.b = <<SHRINK_RL + 2, 1>>
    /\ io.out.b = <<1>>
    /\ r2 < 0

\* the encode call has returned and every unit it put is a literal: the bit
\* in front of each of the Len(msg) units of 9 bits is 1
C17_AllLiterals ==
    /\ codec = "LZSS" /\ encode = 1 /\ pc = "ret"
    /\ \A k \in 0..(Len(msg) - 1) :
            /\ 9 * k + 1 <= 8 * Len(io.out.b)
            /\ OutBitAt(io, lzss.bit, 9 * k + 1) = 1

\* C17: LZSS expansion is not an error: an encode call on n bytes that has put
\* literals only has returned 0 and has written ceil(9 * n / 8) bytes, which
\* is at least n.
C17_LzssExpansion ==
    C17_AllLiterals =>
        /\ r1 = 0
        /\ io.wrote = (9 * Len(msg) + 7) \div 8
        /\ Len(io.out.b) = io.wrote
        /\ io.wrote >= Len(msg)

\* an input longer than the window in which no byte occurs twice: the bits do
\* not fill the last byte
C17_Witness ==
    /\ C17_AllLiterals
    /\ Len(msg) = 2 * SHRINK_N + 1
    /\ \A j, k \in 1..Len(msg) : msg[j] = msg[k] => j = k
    /\ (9 * Len(msg)) % 8 # 0
    /\ io.wrote > Len(msg)
    /\ r1 = 0

\* the fill byte of the dictionary: #define SHRINK_CH (' ')
SHRINK_CH == 32

\* C18: LZSS dictionary initialisation: when the encoder is at the top of its
\* main loop and has put no unit yet, and when the decoder is at the top of its
\* loop and has read nothing yet, every byte of the dictionary region [0, N-F)
\* of the window is the fill byte.
C18_DictionaryInit ==
    (/\ codec = "LZSS"
     /\ \/ /\ encode = 1
           /\ pc \in {"lzss_encode_loop", "lzss_encode_flush"}
           /\ lzss.s = 0
           /\ OutBitCount(io, lzss.bit) = 0
        \/ /\ encode = 0
           /\ pc = "lzss_decode_loop"
           /\ io.read = 0) =>
        \A k \in 0..(SHRINK_N - SHRINK_F - 1) : At(io.buffer, k) = SHRINK_CH

\* C19: LZSS padding is inert: in every build the macros' checks admit, once
\* the encode call and the decode call on its output have returned, the decoder
\* has written exactly as many bytes as were encoded.
C19_PaddingInert ==
    (codec = "LZSS" /\ pc = "done") => Len(decompressed) = Len(msg)

\* the input is one run of more than RL + ROVER + 1 equal bytes
C20_LongRun ==
    /\ codec = "RLE"
    /\ Len(msg) > SHRINK_RL + SHRINK_ROVER + 1
    /\ \A k \in 1..Len(msg) : msg[k] = msg[1]

\* what the encode call wrote for such a run: run commands of the command byte
\* RL, then nothing, or one run command, or one literal block
C20_Chain(out, log) ==
    /\ Len(log) >= 2
    /\ \A k \in 1..(Len(log) - 1) :
            /\ log[k].kind = "run" /\ log[k].at = 2 * k - 1
            /\ out[2 * k - 1] = SHRINK_RL /\ out[2 * k] = msg[1]
    /\ LET last == log[Len(log)]
       IN  /\ last.at = 2 * Len(log) - 1
           /\ IF last.kind = "run"
              THEN /\ Len(out) = last.at + 1
                   /\ out[last.at] <= SHRINK_RL /\ out[last.at + 1] = msg[1]
              ELSE /\ Len(out) = last.at + (out[last.at] - SHRINK_RL)
                   /\ \A q \in (last.at + 1)..Len(out) : out[q] = msg[1]

\* the chain is written, and it decodes to the run
C20_ChainDecodes ==
    /\ (C20_LongRun /\ encode = 1 /\ pc = "ret") => r1 = 0 /\ C20_Chain(io.out.b, io.log)
    /\ (C20_LongRun /\ pc = "done") => r2 = 0 /\ decompressed = msg

C21_Emitted ==
    LET before == OutBitCount(io, lzss.bit)
        after == OutBitCount(io', lzss'.bit)
        flag == OutBitAt(io', lzss'.bit, before + 1)
        found == LzssSearch(io.buffer, lzss.s, lzss.r, lzss.bufferend)
    IN  (pc = "lzss_encode_loop" /\ pc' \in {"lzss_encode_loop", "lzss_encode_flush"}) =>
            IF found.y <= SHRINK_P
            THEN /\ flag = 1
                 /\ after = before + 9
                 /\ OutBitsValue(io', lzss'.bit, before + 2, 8) = At(io.buffer, lzss.r)
            ELSE /\ flag = 0
                 /\ after = before + 1 + SHRINK_EI + SHRINK_EJ
                 /\ OutBitsValue(io', lzss'.bit, before + 2, SHRINK_EI) = found.x % SHRINK_N
                 /\ OutBitsValue(io', lzss'.bit, before + 2 + SHRINK_EI, SHRINK_EJ)
                        = found.y - SHRINK_P

\* the unit an iteration of the decoder's loop has taken, read from the input
\* bytes with the first bit of a byte its bit 7: behind the bit 1 it takes 8
\* bits and writes them as one byte, behind the bit 0 it takes EI bits of
\* position and EJ bits of length and writes length + P bytes, the first the
\* byte of the dictionary at the position
C21_Taken ==
    LET Left(bit) == CHOOSE k \in 0..8 : IF bit.mask = 0 THEN k = 0 ELSE 2 ^ k = 2 * bit.mask
        before == 8 * io.in.used - Left(lzss.bit)
        after == 8 * io'.in.used - Left(lzss'.bit)
        InBit(p) == (io.in.b[(p - 1) \div 8 + 1] \div 2 ^ (7 - ((p - 1) % 8))) % 2
        InBits(p, n) == LET v[k \in 0..n] == IF k = 0 THEN 0 ELSE 2 * v[k - 1] + InBit(p + k - 1)
                        IN  v[n]
        position == InBits(before + 2, SHRINK_EI)
        length == InBits(before + 2 + SHRINK_EI, SHRINK_EJ)
    IN  (pc = "lzss_decode_loop" /\ pc' = "lzss_decode_loop") =>
            IF InBit(before + 1) = 1
            THEN /\ after = before + 9
                 /\ io'.out.b = Append(io.out.b, InBits(before + 2, 8))
            ELSE /\ after = before + 1 + SHRINK_EI + SHRINK_EJ
                 /\ Len(io'.out.b) = Len(io.out.b) + length + SHRINK_P
                 /\ io'.out.b[Len(io.out.b) + 1] = At(io.buffer, position)
                 /\ lzss'.r = (lzss.r + length + SHRINK_P) % SHRINK_N

\* C21: LZSS wire format: every unit the encoder puts is the bit 1 and the 8
\* bits of the literal byte, or the bit 0, EI bits of the match position masked
\* to N - 1 and EJ bits of the match length less P, each field with its highest
\* bit first and the bits packed into the output bytes from bit 7 down to bit 0;
\* and the decoder takes its units from the input bytes in this layout.
C21_LzssWireFormat == [][C21_Emitted /\ C21_Taken]_vars

\* the decode call has given back a message longer than the dictionary from
\* fewer bytes than the message has: it took references as well as literals
C21_Witness ==
    /\ codec = "LZSS" /\ encode = 0 /\ pc = "ret" /\ r2 = 0
    /\ io.out.b = msg
    /\ Len(msg) > SHRINK_N
    /\ Len(compressed) < Len(msg)
    /\ \E k \in 1..Len(msg) : msg[k] # msg[1]

\* C22: LZSS match tie-breaking: an iteration of the encoder's main loop that
\* puts its unit takes, of the start positions in [s, r), one whose match with
\* the bytes at the cursor is of the greatest length, a match being at most
\* min(F, bufferend - r) bytes long, and of the positions with a match of that
\* length the lowest: it puts a reference to that position and moves the cursor
\* by that length when the length is above P, and a literal otherwise.
C22_LeftmostLongest ==
    LET f1 == IF SHRINK_F <= lzss.bufferend - lzss.r THEN SHRINK_F ELSE lzss.bufferend - lzss.r
        Match(i) == CHOOSE n \in 0..f1 :
                        /\ \A q \in 0..(n - 1) : At(io.buffer, i + q) = At(io.buffer, lzss.r + q)
                        /\ n = f1 \/ At(io.buffer, i + n) # At(io.buffer, lzss.r + n)
        len == [i \in lzss.s..(lzss.r - 1) |-> Match(i)]
        best == CHOOSE n \in 0..f1 :
                    /\ \A i \in DOMAIN len : len[i] <= n
                    /\ n = 0 \/ \E i \in DOMAIN len : len[i] = n
        leftmost == CHOOSE i \in DOMAIN len : len[i] = best /\ \A k \in DOMAIN len : len[k] = best => i <= k
        before == OutBitCount(io, lzss.bit)
    IN  (pc = "lzss_encode_loop" /\ pc' \in {"lzss_encode_loop", "lzss_encode_flush"}) =>
            IF best > SHRINK_P
            THEN /\ OutBitAt(io', lzss'.bit, before + 1) = 0
                 /\ OutBitsValue(io', lzss'.bit, before + 2, SHRINK_EI) = leftmost % SHRINK_N
                 /\ OutBitsValue(io', lzss'.bit, before + 2 + SHRINK_EI, SHRINK_EJ) + SHRINK_P = best
                 /\ (lzss'.r + 2 * SHRINK_N - lzss.r) % SHRINK_N = best
            ELSE /\ OutBitAt(io', lzss'.bit, before + 1) = 1
                 /\ (lzss'.r + 2 * SHRINK_N - lzss.r) % SHRINK_N = 1

C22_MatchTieBreaking == [][C22_LeftmostLongest]_vars

\* every index of io->buffer the last iteration of the decoder read or wrote,
\* and the cursor, lie in [0, N); a call that has returned gave 0 or less
C23_InWindow ==
    (codec = "LZSS" /\ encode = 0 /\ pc \in {"lzss_decode_loop", "ret"}) =>
        /\ lzss.at \subseteq 0..(SHRINK_N - 1)
        /\ lzss.r \in 0..(SHRINK_N - 1)
        /\ pc = "ret" => r2 <= 0

\* an iteration of the decoder's loop returns or has taken at least one more
\* bit of the input
C23_Ends ==
    (encode = 0 /\ pc = "lzss_decode_loop") =>
        \/ pc' = "ret" /\ r2' <= 0
        \/ InBitCount(io', lzss'.bit) > InBitCount(io, lzss.bit)

\* C23: LZSS decoder memory safety on arbitrary input: for every input byte
\* sequence, an encoder's output or not, every index of the window the decoder
\* reads or writes lies in [0, N), whatever position and length it decodes, and
\* the call ends (each iteration takes input or returns) with 0 or a negative
\* value.
C23_LzssDecoderSafe == []C23_InWindow /\ [][C23_Ends]_vars

\* the decoder took a reference to the last byte of the dictionary on bytes no
\* encoder wrote: the copy read index N - 1, then index 0, and left the cursor
\* wrapped to 0
C23_Witness ==
    /\ codec = "LZSS" /\ encode = 0 /\ pc = "lzss_decode_loop"
    /\ compressed = <<>>
    /\ {SHRINK_N - 1, 0} \subseteq lzss.at
    /\ lzss.r = 0

\* the code an iteration of the encoder's loop has put for the symbol v it took
\* (the next 4 bits of the input, or the terminal value behind the last of
\* them), read back from the output bits: n one-bits, a zero-bit and the n bits
\* of v + 1 below its leading 1, with 2^n <= v + 1 < 2^(n + 1)
C24_Code ==
    LET taken == InBitCount(io, elias.ibuf)
        v == IF taken + SHRINK_ELIAS_BITS <= 8 * Len(io.in.b)
             THEN InBitsValue(io, taken + 1, SHRINK_ELIAS_BITS)
             ELSE SHRINK_ELIAS_TERMINAL
        n == CHOOSE k \in 0..8 : 2 ^ k <= v + 1 /\ v + 1 < 2 ^ (k + 1)
        before == OutBitCount(io, elias.buf)
    IN  (pc = "elias_encode" /\ pc' \in {"elias_encode", "elias_encode_flush"}) =>
            /\ OutBitCount(io', elias'.buf) = before + 2 * n + 1
            /\ \A k \in 1..n : OutBitAt(io', elias'.buf, before + k) = 1
            /\ OutBitAt(io', elias'.buf, before + n + 1) = 0
            /\ OutBitsValue(io', elias'.buf, before + n + 2, n) = v + 1 - 2 ^ n
            /\ shrink_gamma_size(v) = 2 * n + 1

C25_Emitted ==
    LET n == SHRINK_ELIAS_BITS
        terminal == (2 ^ n - 1) * 2 ^ (n + 1) + (SHRINK_ELIAS_TERMINAL + 1 - 2 ^ n)
        before == OutBitCount(io, elias.buf)
        ended == InBitCount(io, elias.ibuf) + SHRINK_ELIAS_BITS > 8 * Len(io.in.b)
    IN  (pc = "elias_encode" /\ pc' \in {"elias_encode", "elias_encode_flush"}) =>
            /\ ended <=> (/\ OutBitCount(io', elias'.buf) = before + 2 * n + 1
                          /\ OutBitsValue(io', elias'.buf, before + 1, 2 * n + 1) = terminal)
            /\ ended <=> pc' = "elias_encode_flush"

\* the decoder returns 0 in the iteration that takes the code of the terminal
\* value, having taken that code and no bit behind it and having put nothing,
\* and in no other iteration
C25_Taken ==
    LET n == SHRINK_ELIAS_BITS
        terminal == (2 ^ n - 1) * 2 ^ (n + 1) + (SHRINK_ELIAS_TERMINAL + 1 - 2 ^ n)
        before == InBitCount(io, elias.buf)
        ahead == /\ before + 2 * n + 1 <= 8 * Len(io.in.b)
                 /\ InBitsValue(io, before + 1, 2 * n + 1) = terminal
    IN  (encode = 0 /\ pc = "elias_decode") =>
            /\ ahead => /\ pc' = "ret" /\ r2' = 0
                        /\ InBitCount(io', elias'.buf) = before + 2 * n + 1
                        /\ io'.out = io.out /\ elias'.obuf = elias.obuf
            /\ (pc' = "ret" /\ r2' = 0) => ahead

\* C25: Elias-Gamma terminal marker: the encoder puts the code of the terminal
\* value exactly once, as the last code of its output, once get has reported
\* the end of the input; the decoder returns 0 upon taking that code, puts
\* nothing for it, takes no code behind it, and takes no other code for the end
\* of the stream.
C25_TerminalMarker == [][C25_Emitted /\ C25_Taken]_vars

\* C26: LZP hash range: in every build, whatever SHRINK_LZP_HASH_ORDER it is
\* made with, the hash that indexes the table next, in the encoder and in the
\* decoder, is below 2^SHRINK_LZP_HASH_ORDER, the least table size the CODEC
\* takes, after any sequence of bytes; no access lies behind the table.
C26_HashRange ==
    (codec = "LZP" /\ pc \in {"lzp_encode_byte", "lzp_encode_emit", "lzp_decode_mask",
                              "lzp_decode_byte", "lzp_decode_emit", "abort"}) =>
        /\ lzp.hash < SHRINK_LZP_HASH_SIZE
        /\ pc # "abort"

\* C27: RLE literal-buffer bound: after every step of the RLE encoder the
\* number of pending literal bytes idx is in 0..RL-2, the buffer being written
\* out as one literal block the moment it holds RL - 1 bytes and at the end of
\* the input if it holds any; so the buffer of RL bytes is never written
\* outside its bounds, no literal block is empty, and every literal command
\* byte idx + RL is at most 255.
C27_RleLiteralBound ==
    (codec = "RLE" /\ encode = 1 /\ pc \in {"rle_encode", "rle_encode_end", "ret"}) =>
        /\ rle.idx \in 0..(SHRINK_RL - 2)
        /\ DOMAIN rle.buf = 0..(SHRINK_RL - 1)
        /\ \A k \in 1..Len(io.log) :
            io.log[k].kind = "literal" =>
                LET at == io.log[k].at
                    next == IF k < Len(io.log) THEN io.log[k + 1].at
                            ELSE IF pc = "ret" THEN Len(io.out.b) + 1
                            ELSE at + 1 + (io.out.b[at] - SHRINK_RL)
                IN  /\ io.out.b[at] \in (SHRINK_RL + 1)..(2 * SHRINK_RL - 1)
                    /\ 2 * SHRINK_RL - 1 <= 255
                    /\ next = at + 1 + (io.out.b[at] - SHRINK_RL)
        /\ pc = "ret" =>
            /\ r1 = 0
            /\ rle.idx > 0 =>
                /\ Len(io.log) > 0
                /\ io.log[Len(io.log)].kind = "literal"
                /\ io.out.b[io.log[Len(io.log)].at] = rle.idx + SHRINK_RL

\* the encoder has written a literal block of RL - 1 bytes, command byte 255,
\* the moment the buffer held them, and holds pending bytes again
C27_Witness ==
    /\ codec = "RLE" /\ encode = 1 /\ pc = "rle_encode"
    /\ Len(io.log) = 1
    /\ io.log[1].kind = "literal"
    /\ io.out.b[io.log[1].at] = 255
    /\ Len(io.out.b) = SHRINK_RL
    /\ rle.idx = 1

\* at the top of an iteration of the encoder's main loop: r - s = N - F,
\* s <= r < bufferend <= 2N <= buffer_length and r < 2N - F; the search reads
\* i + j and r + j for i in [s, r) and j below min(F, bufferend - r), all
\* below 2N; and no assertion has failed
C28_Top ==
    (codec = "LZSS" /\ encode = 1 /\ pc \in {"lzss_encode_loop", "abort"}) =>
        LET f1 == IF SHRINK_F <= lzss.bufferend - lzss.r THEN SHRINK_F
                  ELSE lzss.bufferend - lzss.r
        IN  /\ pc # "abort"
            /\ lzss.r - lzss.s = SHRINK_N - SHRINK_F
            /\ lzss.s >= 0 /\ lzss.s <= lzss.r
            /\ lzss.r < lzss.bufferend
            /\ lzss.bufferend <= 2 * SHRINK_N
            /\ 2 * SHRINK_N <= io.buffer.length
            /\ lzss.r < 2 * SHRINK_N - SHRINK_F
            /\ \A i \in lzss.s..(lzss.r - 1) : \A j \in 0..(f1 - 1) :
                i + j < 2 * SHRINK_N /\ lzss.r + j < 2 * SHRINK_N

\* an iteration that slides the window (r + y has reached 2N - F) finds s + y,
\* r + y and bufferend at N or above and takes N from each
C28_Slide ==
    (/\ codec = "LZSS" /\ encode = 1 /\ pc = "lzss_encode_loop" /\ pc' # "ret"
     /\ lzss.r + lzss'.y >= 2 * SHRINK_N - SHRINK_F) =>
        /\ lzss.s + lzss'.y >= SHRINK_N
        /\ lzss.r + lzss'.y >= SHRINK_N
        /\ lzss.bufferend >= SHRINK_N
        /\ lzss'.s = lzss.s + lzss'.y - SHRINK_N
        /\ lzss'.r = lzss.r + lzss'.y - SHRINK_N
        /\ lzss'.bufferend >= lzss.bufferend - SHRINK_N
        /\ lzss'.bufferend <= 2 * SHRINK_N

\* C28: LZSS encoder window invariants: at the top of every iteration of the
\* encoder's main loop r - s = N - F and s <= r < bufferend <= 2N with
\* r < 2N - F; every index the match search reads (i + j and r + j) is below
\* 2N; and whenever the window slides, s, r and bufferend are all at least N,
\* so that taking N from them never underflows and no assertion of the encoder
\* fails.
C28_LzssWindow == []C28_Top /\ [][C28_Slide]_vars

\* the encoder is at the top of its loop behind a slide of the window that
\* took N from r, s and bufferend and read the rest of a message of more than
\* 2N bytes into the window
C28_Witness ==
    /\ codec = "LZSS" /\ encode = 1 /\ pc = "lzss_encode_loop"
    /\ Len(msg) > 2 * SHRINK_N
    /\ io.read = Len(msg)
    /\ lzss.r < SHRINK_N
    /\ lzss.bufferend > SHRINK_N + SHRINK_F
    /\ lzss.bufferend < 2 * SHRINK_N

\* C29: the MTF table is always a permutation: behind shrink_mtf_init and
\* behind any number of bytes, in the encoder and in the decoder, the table of
\* 256 entries holds every value of 0..255 exactly once; so shrink_mtf_find
\* finds every byte and shrink_mtf_update is never given a negative index.
C29_MtfPermutation ==
    codec = "MTF" =>
        /\ DOMAIN mtf = 1..SHRINK_MTF_ELEMENTS
        /\ {mtf[i] : i \in DOMAIN mtf} = 0..(SHRINK_MTF_ELEMENTS - 1)
        /\ \A v \in MtfBytes : shrink_mtf_find(mtf, v) \in 0..(SHRINK_MTF_ELEMENTS - 1)
        /\ pc # "abort"

\* the encoder has promoted the last entry of the table and entries in front
\* of it, over a full-length input
C29_Witness ==
    /\ codec = "MTF" /\ encode = 1 /\ pc = "mtf_encode"
    /\ io.wrote = MaxMtfLen
    /\ io.out.b[1] = SHRINK_MTF_ELEMENTS - 1
    /\ mtf[1] # SHRINK_MTF_ELEMENTS - 1
    /\ mtf[SHRINK_MTF_ELEMENTS] = SHRINK_MTF_ELEMENTS - 2

\* an iteration of the decoder's loop, by what is left of the input: with less
\* than a whole unit ahead (no bit, the bit 1 and fewer than 8 bits, the bit 0
\* and fewer than EI + EJ bits) it returns 0 and writes nothing; with a whole
\* unit ahead it takes the unit and writes its bytes, or returns a negative
\* value, which it does only when a put was refused
C30_Step ==
    LET before == InBitCount(io, lzss.bit)
        rest == 8 * Len(io.in.b) - before
        size == IF InBitAt(io, before + 1) = 1 THEN 1 + 8 ELSE 1 + SHRINK_EI + SHRINK_EJ
        whole == rest >= 1 /\ rest >= size
    IN  (codec = "LZSS" /\ encode = 0 /\ pc = "lzss_decode_loop") =>
            /\ ~whole => /\ pc' = "ret" /\ r2' = 0
                         /\ io'.out = io.out
            /\ whole => \/ /\ pc' = "lzss_decode_loop"
                           /\ InBitCount(io', lzss'.bit) = before + size
                           /\ Len(io'.out.b) > Len(io.out.b)
                           /\ ~io'.out.refused
                        \/ /\ pc' = "ret" /\ r2' < 0
                           /\ io'.out.refused
            /\ (pc' = "ret" /\ r2' < 0) => io'.out.refused

\* C30: LZSS truncated stream: when the input ends in the middle of a unit
\* (behind a literal's control bit with its 8 bits incomplete, or with a
\* reference's position and length incomplete), the decoder, given a working
\* buffer of 2N bytes, returns 0 having written exactly the bytes of the whole
\* units in front of it; it returns a negative value only when a put fails.
C30_LzssTruncated == [][C30_Step]_vars

\* the decoder has returned 0 on an input of one literal and a reference cut
\* short behind its position, with the literal's byte written and no more
C30_Witness ==
    /\ codec = "LZSS" /\ encode = 0 /\ pc = "ret" /\ r2 = 0
    /\ compressed = <<>>
    /\ msg = <<128, 128>>
    /\ io.out.b = <<1>>
    /\ InBitCount(io, lzss.bit) = 8 * Len(msg)


====
